---- MODULE Spec2Model ----
(***************************************************************************)
(* Request-lifecycle logging and error-propagation pipeline of the dot-env *)
(* SvelteKit application: the server hooks (handle, handleError), the      *)
(* request/response logger (middleware.ts), the logger facade (logger.ts), *)
(* the error classifier (errors.ts), the database logger (database.ts) and *)
(* the route handlers of /api/items and /api/test-logging.                 *)
(*                                                                         *)
(* Conventions.                                                            *)
(*  - A JavaScript object literal is a function from field names to        *)
(*    values; {...a, ...b} is Spread(a, b).  The value undefined is the    *)
(*    string "undefined"; an unset request id is <<>>, a missing item id 0. *)
(*  - A message (of a log record, of an error, of a response body) is the  *)
(*    tuple of the parts of its template string.                           *)
(*  - A function that may throw and may write log records is an operator   *)
(*    returning [recs, threw, failure, value]: the records it handed to    *)
(*    the logger before it returned or threw, and its result.              *)
(*  - The logger (Logger of @axiomhq/logging) and the runtime supplied     *)
(*    getClientAddress are outside the repository.  None of the calls the  *)
(*    repository makes to them is guarded, so each call either returns or  *)
(*    throws; which one is an input of the step that makes it.             *)
(*  - Date.now() is the wall clock: every reading is an arbitrary value of *)
(*    Clock, not necessarily later than the previous reading.              *)
(***************************************************************************)
EXTENDS Integers, Sequences, FiniteSets, TLC

VARIABLES
    pc,        \* position of the request in the hosting runtime
    event,     \* the RequestEvent being served
    locals,    \* event.locals: requestId (<<>> = unset), startTime (-1 = unset)
    logs,      \* records written by the logger while serving the request
    idCount,   \* number of request ids generated so far
    resolved,  \* outcome of resolve(event): a response or a thrown failure
    handled,   \* outcome of handle({event, resolve})
    payload,   \* outcome of handleError({error, event})
    rt,        \* local variables of the route handler that resolve(event) runs
    rows,      \* the items table: id -> row (NoRow when there is none)
    autoInc,   \* the next AUTO_INCREMENT id of the items table
    lib,       \* a direct call of a wrapper of errors.ts or database.ts
    logger,    \* the logger instance of logger.ts, its destinations and its last call
    inflight,  \* requests served concurrently by handle: index -> its position and locals
    database   \* db/index.ts: building, env.DATABASE_URL, _db and the accesses of db

vars == <<pc, event, locals, logs, idCount, resolved, handled, payload, rt, rows, autoInc, lib,
          logger, inflight, database>>

----------------------------------------------------------------------------
(* Bounds *)

MaxClock == 1

MaxItems == 2

Clock == 0..MaxClock

----------------------------------------------------------------------------
(* JavaScript values *)

Undefined == "undefined"

Spread(a, b) == b @@ a

Has(ctx, k) == k \in DOMAIN ctx

OrUndefined(s) == IF s = "" THEN Undefined ELSE s

NoFailure == [oid |-> <<"none">>, cls |-> "none"]

Ret(recs, v) == [recs |-> recs, threw |-> FALSE, failure |-> NoFailure, value |-> v]

Thr(recs, f) == [recs |-> recs, threw |-> TRUE, failure |-> f, value |-> Undefined]

\* r1 ; r2 : r2 runs only when r1 did not throw
Then(r1, r2) ==
    IF r1.threw THEN r1
    ELSE [recs |-> r1.recs \o r2.recs, threw |-> r2.threw, failure |-> r2.failure,
          value |-> r2.value]

\* r with the records written before it
After(recs, r) == [r EXCEPT !.recs = recs \o r.recs]

\* new Error(message); oid is the identity of the object
NewError(oid, message) ==
    [oid |-> oid, cls |-> "Error", name |-> "Error", message |-> message,
     stack |-> <<"Error:">> \o message \o <<"at">>]

\* a thrown value that is not an Error (throw 'text'); str is String(value)
ThrownValue(oid, str) == [oid |-> oid, cls |-> "Value", str |-> str]

IsError(e) == e.cls \in {"Error", "AppError"}

MessageOf(e) == IF IsError(e) THEN e.message ELSE <<Undefined>>

NameOf(e) == IF IsError(e) THEN e.name ELSE Undefined

StackOf(e) == IF IsError(e) THEN e.stack ELSE <<Undefined>>

StringOf(e) == IF IsError(e) THEN e.message ELSE <<e.str>>

----------------------------------------------------------------------------
(* errors.ts: the error classifier *)

ErrorType ==
    [VALIDATION |-> "validation", DATABASE |-> "database",
     AUTHENTICATION |-> "authentication", AUTHORIZATION |-> "authorization",
     NOT_FOUND |-> "not_found", RATE_LIMIT |-> "rate_limit",
     EXTERNAL_API |-> "external_api", INTERNAL |-> "internal",
     NETWORK |-> "network", TIMEOUT |-> "timeout"]

ErrorTypes == {ErrorType[k] : k \in DOMAIN ErrorType}

\* AppError with the caller's context spread after errorType and statusCode
AppError_ContextLast(oid, message, type, statusCode, context, isOperational) ==
    [oid |-> oid, cls |-> "AppError", name |-> "AppError", message |-> message,
     stack |-> <<"AppError:">> \o message \o <<"at">>,
     type |-> type, statusCode |-> statusCode, isOperational |-> isOperational,
     context |-> Spread([errorType |-> type, statusCode |-> statusCode], context)]

\* new AppError(message, type, statusCode, context, isOperational)
AppError(oid, message, type, statusCode, context, isOperational) ==
    [oid |-> oid, cls |-> "AppError", name |-> "AppError", message |-> message,
     stack |-> <<"AppError:">> \o message \o <<"at">>,
     type |-> type, statusCode |-> statusCode, isOperational |-> isOperational,
     context |-> Spread(context, [errorType |-> type, statusCode |-> statusCode])]

\* new AppError(message, ...args): a parameter whose argument is not given
\* takes its default
NewAppError(oid, message, args) ==
    AppError(oid, message,
             IF Len(args) >= 1 THEN args[1] ELSE ErrorType.INTERNAL,
             IF Len(args) >= 2 THEN args[2] ELSE 500,
             IF Len(args) >= 3 THEN args[3] ELSE <<>>,
             IF Len(args) >= 4 THEN args[4] ELSE TRUE)

\* error instanceof AppError
IsAppError(e) == e.cls = "AppError"

----------------------------------------------------------------------------
(* logger.ts: the logger facade *)

getBaseContext ==
    [timestamp |-> "iso", service |-> "sveltekit-app", environment |-> "development"]

LogRecord(level, message, ctx) == [level |-> level, message |-> message, ctx |-> ctx]

\* logger.debug/info/warn/error(message, fields): the call hands the record
\* to the transports and returns, or throws (ok = FALSE) without writing it
LoggerCall(rec, ok, site) ==
    IF ok THEN Ret(<<rec>>, Undefined)
    ELSE Thr(<<>>, NewError(<<"sink", site>>, <<"transport failed">>))

log_debug(message, context, ok, site) ==
    LoggerCall(LogRecord("debug", message, Spread(getBaseContext, context)), ok, site)

log_info(message, context, ok, site) ==
    LoggerCall(LogRecord("info", message, Spread(getBaseContext, context)), ok, site)

log_warn(message, context, ok, site) ==
    LoggerCall(LogRecord("warn", message, Spread(getBaseContext, context)), ok, site)

log_error(message, context, ok, site) ==
    LoggerCall(LogRecord("error", message, Spread(getBaseContext, context)), ok, site)

log_request(message, context, ok, site) ==
    LoggerCall(LogRecord("info", <<"[REQUEST]">> \o message,
                         Spread(Spread(getBaseContext, [type |-> "request"]), context)),
               ok, site)

log_response(message, context, ok, site) ==
    LoggerCall(LogRecord("info", <<"[RESPONSE]">> \o message,
                         Spread(Spread(getBaseContext, [type |-> "response"]), context)),
               ok, site)

log_database(message, context, ok, site) ==
    LoggerCall(LogRecord("info", <<"[DATABASE]">> \o message,
                         Spread(Spread(getBaseContext, [type |-> "database"]), context)),
               ok, site)

\* logError(error, context)
logError(error, context, ok, site) ==
    log_error(MessageOf(error),
              Spread(context, [error |-> [name |-> NameOf(error),
                                          message |-> MessageOf(error),
                                          stack |-> StackOf(error)]]),
              ok, site)

\* generateRequestId(): the n-th token generated while serving the request
generateRequestId(n) == <<"req_", n>>

----------------------------------------------------------------------------
(* errors.ts: reporting helpers, wrappers and factories *)

logAppError(error, additionalContext, ok, site) ==
    logError(error,
             Spread(Spread(error.context, additionalContext),
                    [error |-> [name |-> error.name, message |-> error.message,
                                stack |-> error.stack]]),
             ok, site)

\* query.substring(0, 500) is the query itself for the queries that occur
logDatabaseError(error, operation, table, query, context, ok, site) ==
    logError(error,
             Spread(context, [errorType |-> ErrorType.DATABASE, operation |-> operation,
                              resource |-> table, metadata |-> [query |-> query]]),
             ok, site)

createValidationError(oid, message, fields) ==
    AppError(oid, message, ErrorType.VALIDATION, 400, [validationErrors |-> fields], TRUE)

createNotFoundError(oid, resource, id) ==
    AppError(oid, <<resource, "not found">> \o (IF id = 0 THEN <<>> ELSE <<"with id:", ToString(id)>>),
             ErrorType.NOT_FOUND, 404, [resource |-> resource, metadata |-> [id |-> id]], TRUE)

createAuthError(oid, message) == AppError(oid, message, ErrorType.AUTHENTICATION, 401, <<>>, TRUE)

\* the authorization preset with the status of the authentication preset
createAuthzError_401(oid, message) == AppError(oid, message, ErrorType.AUTHORIZATION, 401, <<>>, TRUE)

createAuthzError(oid, message) == AppError(oid, message, ErrorType.AUTHORIZATION, 403, <<>>, TRUE)

\* the database preset built as an internal error
createDatabaseError_Internal(oid, message, operation, table) ==
    AppError(oid, message, ErrorType.INTERNAL, 500, [operation |-> operation, resource |-> table], TRUE)

createDatabaseError(oid, message, operation, table) ==
    AppError(oid, message, ErrorType.DATABASE, 500, [operation |-> operation, resource |-> table], TRUE)

\* createErrorResponse(error, requestContext)
createErrorResponse(error, requestContext, ok) ==
    IF IsAppError(error)
    THEN Then(logAppError(error, requestContext, ok, "createErrorResponse"),
              Ret(<<>>, [error |-> error.message, status |-> error.statusCode]))
    ELSE Then(logError(error, Spread(requestContext, [errorType |-> ErrorType.INTERNAL,
                                                      statusCode |-> 500]),
                       ok, "createErrorResponse"),
              Ret(<<>>, [error |-> <<"Internal server error">>, status |-> 500]))

\* withErrorHandling(fn, context)(...args), once fn(...args) has settled with q
withErrorHandling(q, context, ok) ==
    IF ~q.threw THEN q
    ELSE After(q.recs,
               Then(IF IsAppError(q.failure)
                    THEN logAppError(q.failure, context, ok, "withErrorHandling")
                    ELSE logError(q.failure, Spread(context, [errorType |-> ErrorType.INTERNAL]),
                                  ok, "withErrorHandling"),
                    Thr(<<>>, q.failure)))

----------------------------------------------------------------------------
(* database.ts: DatabaseLogger *)

DatabaseOperation ==
    [SELECT |-> "select", INSERT |-> "insert", UPDATE |-> "update", DELETE |-> "delete",
     TRANSACTION |-> "transaction", MIGRATION |-> "migration"]

\* a query result: an array of len rows, an object with a changes count, or another value
QueryRows(len) == [kind |-> "array", len |-> len, changes |-> 0]

QueryChanges(n) == [kind |-> "changes", len |-> 0, changes |-> n]

QueryValue == [kind |-> "value", len |-> 0, changes |-> 0]

\* DatabaseLogger.logOperation, lines 51-58: up to the call of queryFn
logOperationStart(operation, table, context, ok) ==
    log_database(<<"Starting", operation, "operation on", table>>,
                 Spread([operation |-> operation, table |-> table], context),
                 ok, "logOperation.start")

\* DatabaseLogger.logOperation, lines 60-98, once queryFn() has settled with q
logOperationSettle(operation, table, context, startTime, q, now, okDone, okErr) ==
    LET operationContext == Spread([operation |-> operation, table |-> table], context)
        duration == now - startTime
        metrics == IF ~q.threw /\ q.value.kind = "array"
                   THEN [duration |-> duration, rowsReturned |-> q.value.len]
                   ELSE IF ~q.threw /\ q.value.kind = "changes"
                   THEN [duration |-> duration, rowsAffected |-> q.value.changes]
                   ELSE [duration |-> duration]
        t == IF q.threw THEN q
             ELSE After(q.recs,
                        Then(log_database(<<"Completed", operation, "operation on", table>>,
                                          Spread(operationContext, [metrics |-> metrics]),
                                          okDone, "logOperation.done"),
                             Ret(<<>>, q.value)))
    IN  IF ~t.threw THEN t
        ELSE After(t.recs,
                   Then(logDatabaseError(t.failure, operation, table,
                                         IF Has(context, "query") THEN context.query ELSE Undefined,
                                         Spread(operationContext, [metrics |-> [duration |-> duration]]),
                                         okErr, "logOperation.error"),
                        Thr(<<>>, createDatabaseError(<<"logOperation">>,
                                      <<"Database", operation, "operation failed on", table>>,
                                      operation, table))))

\* DatabaseLogger.logOperation as one step
logOperation(operation, table, q, context, start, now, okStart, okDone, okErr) ==
    Then(logOperationStart(operation, table, context, okStart),
         logOperationSettle(operation, table, context, start, q, now, okDone, okErr))

\* DatabaseLogger.logConnection(event, context)
logConnection(ev, context, ok) ==
    IF ev = "connect"
    THEN log_info(<<"Database connection established">>,
                  Spread([type |-> "database", event |-> "connection"], context), ok, "logConnection")
    ELSE IF ev = "disconnect"
    THEN log_info(<<"Database connection closed">>,
                  Spread([type |-> "database", event |-> "disconnection"], context), ok, "logConnection")
    ELSE log_error(<<"Database connection error">>,
                   Spread([type |-> "database", event |-> "connection_error"], context), ok, "logConnection")

----------------------------------------------------------------------------
(* middleware.ts: the request/response logger *)

\* a path is the sequence of its pieces: '/health' is '/' followed by 'health'
skipPaths == {<<"/", "favicon.ico">>, <<"/", "robots.txt">>, <<"/", "_app", "/">>,
              <<"/", "health">>, <<"/", "ping">>}

\* pathname === path in place of pathname.startsWith(path)
StartsWith_Exact(pathname, path) == pathname = path

\* pathname.startsWith(path)
StartsWith(pathname, path) ==
    /\ Len(path) <= Len(pathname)
    /\ SubSeq(pathname, 1, Len(path)) = path

\* a filter that skips nothing
shouldLogRequest_Always(pathname) == TRUE

shouldLogRequest(pathname) == ~ \E path \in skipPaths : StartsWith(pathname, path)

extractRequestContext(ev) ==
    IF ~ev.clientAddrOk
    THEN Thr(<<>>, NewError(<<"getClientAddress">>, <<"client address unavailable">>))
    ELSE Ret(<<>>, [method |-> ev.method, url |-> ev.path, pathname |-> ev.path,
                    search |-> "", userAgent |-> OrUndefined(ev.userAgent),
                    ip |-> "ip", contentType |-> Undefined, referer |-> Undefined])

\* logRequest(event, requestId); fresh is the id generateRequestId() would give
logRequest(ev, requestId, fresh, ok) ==
    LET id == IF requestId # <<>> THEN requestId ELSE fresh
        context == extractRequestContext(ev)
    IN  IF context.threw THEN context
        ELSE LET w == log_request(<<context.value.method>> \o context.value.pathname,
                                  Spread(context.value, [requestId |-> id]),
                                  ok, "logRequest")
             IN  IF w.threw THEN w ELSE Ret(w.recs, id)

\* logResponse writing every completion as a success
logResponse_Status200(ev, requestId, startTime, status, responseSize, now, ok, site) ==
    LET duration == now - startTime
        context == extractRequestContext(ev)
    IN  IF context.threw THEN context
        ELSE log_response(<<context.value.method>> \o context.value.pathname \o <<"-", ToString(200)>>,
                          Spread(context.value,
                                 [requestId |-> requestId, status |-> 200,
                                  duration |-> duration, responseSize |-> responseSize]),
                          ok, site)

\* logResponse(event, requestId, startTime, status, responseSize); now is Date.now()
logResponse(ev, requestId, startTime, status, responseSize, now, ok, site) ==
    LET duration == now - startTime
        context == extractRequestContext(ev)
    IN  IF context.threw THEN context
        ELSE log_response(<<context.value.method>> \o context.value.pathname \o <<"-", ToString(status)>>,
                          Spread(context.value,
                                 [requestId |-> requestId, status |-> status,
                                  duration |-> duration, responseSize |-> responseSize]),
                          ok, site)

\* an option of withLogging, true when it is not given
OptionOr(options, k) == IF Has(options, k) THEN options[k] ELSE TRUE

\* withLogging(handler, options)(event), lines 70-113, once handler(event) has
\* settled with h: a returned value (a Response or another value) or a failure
withLogging(options, ev, requestId, startTime, h, now1, now2, ok1, ok2, ok3) ==
    LET shouldLogReq == OptionOr(options, "logRequest")
        shouldLogResponse == OptionOr(options, "logResponse")
        arrival == IF shouldLogReq THEN logRequest(ev, requestId, requestId, ok1)
                   ELSE Ret(<<>>, Undefined)
        status == IF Has(h, "status") THEN h.status ELSE 200
        t == IF h.kind = "throw" THEN Thr(<<>>, h.failure)
             ELSE IF shouldLogResponse
             THEN Then(logResponse(ev, requestId, startTime, status, Undefined, now1, ok2,
                                   "withLogging.try"),
                       Ret(<<>>, h))
             ELSE Ret(<<>>, h)
        c == IF ~t.threw THEN t
             ELSE IF shouldLogResponse
             THEN After(t.recs,
                        Then(logResponse(ev, requestId, startTime, 500, Undefined, now2, ok3,
                                         "withLogging.catch"),
                             Thr(<<>>, t.failure)))
             ELSE t
    IN  Then(arrival, c)

----------------------------------------------------------------------------
(* hooks.server.ts: the global request interceptor *)

Pending == [kind |-> "pending"]

\* a Response object (oid is its identity) or a thrown failure
Response(oid, status, body) == [kind |-> "response", oid |-> oid, status |-> status, body |-> body]

Threw(f) == [kind |-> "throw", failure |-> f]

\* a value returned by a function that is not a Response
Returned(v) == [kind |-> "returned", value |-> v]

RequestFields(ev, requestId) == [requestId |-> requestId, method |-> ev.method, url |-> ev.path]

\* the wrapper with originalError taken from error.message only
UnhandledServerError_MessageOnly(oid, ev, requestId, error) ==
    AppError(oid, <<"Unhandled server error">>, ErrorType.INTERNAL, 500,
             Spread(RequestFields(ev, requestId), [originalError |-> MessageOf(error)]),
             TRUE)

\* the wrapper built for a failure that is not an AppError
UnhandledServerError(oid, ev, requestId, error) ==
    AppError(oid, <<"Unhandled server error">>, ErrorType.INTERNAL, 500,
             Spread(RequestFields(ev, requestId), [originalError |-> StringOf(error)]),
             TRUE)

\* the classify-and-report step shared by handle's catch block and handleError
ReportFailure(oid, ev, requestId, error, ok, site) ==
    IF IsAppError(error)
    THEN logAppError(error, RequestFields(ev, requestId), ok, site)
    ELSE logAppError(UnhandledServerError(oid, ev, requestId, error), <<>>, ok, site)

\* handle without its arrival log
HandleOpen_NoArrival(ev, requestId, ok) == Ret(<<>>, Undefined)

\* handle, lines 350-358: identity, locals, arrival log
HandleOpen(ev, requestId, ok) == logRequest(ev, requestId, requestId, ok)

\* the catch block without its completion log
HandleCatch_NoCompletion(ev, requestId, startTime, error, now, ok2, ok3) ==
    LET a == ReportFailure(<<"wrap", "handle">>, ev, requestId, error, ok3, "handle.report")
    IN  IF a.threw THEN Thr(a.recs, a.failure) ELSE Thr(a.recs, error)

\* handle, catch block (lines 368-395); the value is what handle throws
HandleCatch(ev, requestId, startTime, error, now, ok2, ok3) ==
    LET r == logResponse(ev, requestId, startTime, 500, Undefined, now, ok2, "handle.catch")
    IN  IF r.threw THEN r
        ELSE LET a == ReportFailure(<<"wrap", "handle">>, ev, requestId, error, ok3, "handle.report")
             IN  IF a.threw THEN Thr(r.recs \o a.recs, a.failure)
                 ELSE Thr(r.recs \o a.recs, error)

\* handle logging every completion of the normal path as a success
HandleClose_Status200(ev, requestId, startTime, res, now1, ok1, now2, ok2, ok3) ==
    IF res.kind = "response"
    THEN LET r == logResponse(ev, requestId, startTime, 200, Undefined, now1, ok1, "handle.try")
         IN  IF ~r.threw THEN Ret(r.recs, res)
             ELSE LET c == HandleCatch(ev, requestId, startTime, r.failure, now2, ok2, ok3)
                  IN  Thr(r.recs \o c.recs, c.failure)
    ELSE HandleCatch(ev, requestId, startTime, res.failure, now2, ok2, ok3)

\* handle, lines 360-395, once resolve(event) has settled with res
HandleClose(ev, requestId, startTime, res, now1, ok1, now2, ok2, ok3) ==
    IF res.kind = "response"
    THEN LET r == logResponse(ev, requestId, startTime, res.status, Undefined, now1, ok1, "handle.try")
         IN  IF ~r.threw THEN Ret(r.recs, res)
             ELSE LET c == HandleCatch(ev, requestId, startTime, r.failure, now2, ok2, ok3)
                  IN  Thr(r.recs \o c.recs, c.failure)
    ELSE HandleCatch(ev, requestId, startTime, res.failure, now2, ok2, ok3)

\* handleError with the code of the payload taken from a classified error
handleErrorHook_TypedCode(error, ev, loc, fresh, ok) ==
    LET requestId == IF loc.requestId # <<>> THEN loc.requestId ELSE fresh
        a == ReportFailure(<<"wrap", "handleError">>, ev, requestId, error, ok, "handleError")
    IN  IF a.threw THEN a
        ELSE Ret(a.recs, [message |-> "Internal server error",
                          code |-> IF IsAppError(error) THEN error.type ELSE "INTERNAL_ERROR"])

\* handleError (lines 401-430); fresh is the id generateRequestId() would give
handleErrorHook(error, ev, loc, fresh, ok) ==
    LET requestId == IF loc.requestId # <<>> THEN loc.requestId ELSE fresh
        a == ReportFailure(<<"wrap", "handleError">>, ev, requestId, error, ok, "handleError")
    IN  IF a.threw THEN a
        ELSE Ret(a.recs, [message |-> "Internal server error", code |-> "INTERNAL_ERROR"])

OutcomeOf(r) == IF r.threw THEN Threw(r.failure) ELSE r.value

----------------------------------------------------------------------------
(* db/schema.ts and the persistence calls of the route handlers *)

ItemIds == 1..MaxItems

NoRow == [id |-> 0, name |-> "", description |-> "null", category |-> "", price |-> 0]

NoPrice == -1

\* Math.round(price * 100) for a price given in thousandths
ToCents(mills) == (mills + 5) \div 10

RECURSIVE SelectFrom(_, _)
SelectFrom(table, i) ==
    IF i > MaxItems THEN <<>>
    ELSE (IF table[i] = NoRow THEN <<>> ELSE <<table[i]>>) \o SelectFrom(table, i + 1)

\* db.select().from(items).orderBy(items.createdAt)
SelectAll(table) == SelectFrom(table, 1)

\* db.select().from(items).where(eq(items.id, id))
SelectById(table, id) ==
    IF id \in ItemIds /\ table[id] # NoRow THEN <<table[id]>> ELSE <<>>

\* db.insert(items).values(data), the row getting the id insertId
InsertRow(table, insertId, data) ==
    [table EXCEPT ![insertId] = [data EXCEPT !.id = insertId]]

\* db.update(items).set(data).where(eq(items.id, id))
UpdateRow(table, id, data) ==
    IF id \in ItemIds /\ table[id] # NoRow
    THEN [table EXCEPT ![id] = [data EXCEPT !.id = id]]
    ELSE table

\* db.delete(items).where(eq(items.id, id))
DeleteRow(table, id) ==
    IF id \in ItemIds THEN [table EXCEPT ![id] = NoRow] ELSE table

\* a persistence call that rejects
DbFailure(message) == NewError(<<"db">>, message)

----------------------------------------------------------------------------
(* routes/api/items/+server.ts: GET, POST, PUT, DELETE *)

Await(next) == [kind |-> "await", next |-> next]

ItemsOperation == [GET |-> "fetch_items", POST |-> "create_item",
                   PUT |-> "update_item", DELETE |-> "delete_item"]

ItemsFailText == [GET |-> "Failed to fetch items", POST |-> "Failed to create item",
                  PUT |-> "Failed to update item", DELETE |-> "Failed to delete item"]

ItemsOpenText == [GET |-> "Fetching all items", POST |-> "Creating new item",
                  PUT |-> "Updating item", DELETE |-> "Deleting item"]

\* json(body, {status})
json(status, body) == Response(<<"json">>, status, body)

\* the log.request call that opens every handler, before its try block
ItemsOpen(ev, requestId, ok) ==
    log_request(<<ItemsOpenText[ev.method]>>,
                [method |-> ev.method, url |-> ev.path, requestId |-> requestId,
                 userAgent |-> OrUndefined(ev.userAgent)],
                ok, "items.request")

\* the catch block of every handler
ItemsCatch(ev, requestId, startTime, error, now, okE, okR) ==
    LET duration == now - startTime
    IN  Then(logError(error, [requestId |-> requestId, method |-> ev.method, url |-> ev.path,
                              operation |-> ItemsOperation[ev.method], duration |-> duration],
                      okE, "items.logError"),
        Then(log_response(<<ItemsFailText[ev.method]>>,
                          [method |-> ev.method, url |-> ev.path, requestId |-> requestId,
                           status |-> 500, duration |-> duration],
                          okR, "items.catch"),
             Ret(<<>>, json(500, [error |-> <<ItemsFailText[ev.method]>>]))))

\* the handler body without its catch block: a failure leaves the handler
ItemsTry_Rethrow(t, ev, requestId, startTime, nowC, okE, okC) == t

\* try { t } catch (error) { ItemsCatch }
ItemsTry(t, ev, requestId, startTime, nowC, okE, okC) ==
    IF t.threw
    THEN After(t.recs, ItemsCatch(ev, requestId, startTime, t.failure, nowC, okE, okC))
    ELSE t

\* await request.json()
RequestJson(ev) ==
    IF ev.body.valid THEN Ret(<<>>, ev.body)
    ELSE Thr(<<>>, [NewError(<<"json">>, ev.body.message) EXCEPT !.name = "SyntaxError"])

\* the bad-request branch reporting the problem with logError as well
ItemsBadRequest_Reported(ev, requestId, startTime, warnText, respText, errText, missing, now, okW, okR) ==
    LET duration == now - startTime
    IN  Then(logError(NewError(<<"validation">>, <<errText>>),
                      [requestId |-> requestId, method |-> ev.method, url |-> ev.path,
                       missingFields |-> missing, duration |-> duration],
                      okW, "items.warn"),
        Then(log_response(<<respText>>,
                          [method |-> ev.method, url |-> ev.path, requestId |-> requestId,
                           status |-> 400, duration |-> duration],
                          okR, "items.400"),
             Ret(<<>>, json(400, [error |-> <<errText>>]))))

\* the response of a request that lacks required fields
ItemsBadRequest(ev, requestId, startTime, warnText, respText, errText, missing, now, okW, okR) ==
    LET duration == now - startTime
    IN  Then(log_warn(<<warnText>>,
                      [requestId |-> requestId, method |-> ev.method, url |-> ev.path,
                       missingFields |-> missing, duration |-> duration],
                      okW, "items.warn"),
        Then(log_response(<<respText>>,
                          [method |-> ev.method, url |-> ev.path, requestId |-> requestId,
                           status |-> 400, duration |-> duration],
                          okR, "items.400"),
             Ret(<<>>, json(400, [error |-> <<errText>>]))))

\* the not-found branch logging its completion as a success
ItemsNotFound_Logged200(ev, requestId, startTime, warnText, id, now, okW, okR) ==
    LET duration == now - startTime
    IN  Then(log_warn(<<warnText>>,
                      [requestId |-> requestId, method |-> ev.method, url |-> ev.path,
                       itemId |-> id, duration |-> duration],
                      okW, "items.warn"),
        Then(log_response(<<"Item not found">>,
                          [method |-> ev.method, url |-> ev.path, requestId |-> requestId,
                           status |-> 200, duration |-> duration],
                          okR, "items.404"),
             Ret(<<>>, json(404, [error |-> <<"Item not found">>]))))

\* the response of a request for an id that has no row
ItemsNotFound(ev, requestId, startTime, warnText, id, now, okW, okR) ==
    LET duration == now - startTime
    IN  Then(log_warn(<<warnText>>,
                      [requestId |-> requestId, method |-> ev.method, url |-> ev.path,
                       itemId |-> id, duration |-> duration],
                      okW, "items.warn"),
        Then(log_response(<<"Item not found">>,
                          [method |-> ev.method, url |-> ev.path, requestId |-> requestId,
                           status |-> 404, duration |-> duration],
                          okR, "items.404"),
             Ret(<<>>, json(404, [error |-> <<"Item not found">>]))))

\* the two records and the response that end a successful write
ItemsDone(ev, requestId, startTime, operation, dbText, respText, status, id, body, now, okD, okR) ==
    LET duration == now - startTime
    IN  Then(log_database(<<dbText>>,
                          [operation |-> operation, table |-> "items", requestId |-> requestId,
                           duration |-> duration, rowsAffected |-> 1, itemId |-> id],
                          okD, "items.database"),
        Then(log_response(<<respText>>,
                          [method |-> ev.method, url |-> ev.path, requestId |-> requestId,
                           status |-> status, duration |-> duration, itemId |-> id],
                          okR, "items.response"),
             Ret(<<>>, json(status, body))))

\* the body of a try block up to its first persistence call
ItemsParse(ev, requestId, startTime, now, okW, okR) ==
    IF ev.method = "GET" THEN Ret(<<>>, Await("items.get.select"))
    ELSE LET b == RequestJson(ev)
             body == b.value
         IN  IF b.threw THEN b
             ELSE IF ev.method = "POST"
             THEN IF body.name = "" \/ body.category = "" \/ body.price = NoPrice
                  THEN ItemsBadRequest(ev, requestId, startTime,
                           "Invalid request data for item creation",
                           "Bad request - missing required fields",
                           "Name, category, and price are required",
                           [name |-> body.name = "", category |-> body.category = "",
                            price |-> body.price = NoPrice],
                           now, okW, okR)
                  ELSE Ret(<<>>, Await("items.post.insert"))
             ELSE IF ev.method = "PUT"
             THEN IF body.id = 0 \/ body.name = "" \/ body.category = "" \/ body.price = NoPrice
                  THEN ItemsBadRequest(ev, requestId, startTime,
                           "Invalid request data for item update",
                           "Bad request - missing required fields",
                           "ID, name, category, and price are required",
                           [id |-> body.id = 0, name |-> body.name = "",
                            category |-> body.category = "", price |-> body.price = NoPrice],
                           now, okW, okR)
                  ELSE Ret(<<>>, Await("items.put.update"))
             ELSE IF body.id = 0
                  THEN ItemsBadRequest(ev, requestId, startTime,
                           "Invalid request data for item deletion",
                           "Bad request - ID required",
                           "ID is required",
                           [id |-> TRUE],
                           now, okW, okR)
                  ELSE Ret(<<>>, Await("items.delete.select"))

\* itemData / updateData built from the request body
ItemData(body) ==
    [id |-> 0, name |-> body.name,
     description |-> IF body.description = "" THEN "null" ELSE body.description,
     category |-> body.category, price |-> ToCents(body.price)]

----------------------------------------------------------------------------
(* axiom.ts and test.ts: configuration check and the logging test suite *)

\* isAxiomConfigured(): !!(env.AXIOM_TOKEN && env.AXIOM_DATASET)
isAxiomConfigured(env) == env.AXIOM_TOKEN # "" /\ env.AXIOM_DATASET # ""

\* getDatasetName()
getDatasetName(env) == IF env.AXIOM_DATASET = "" THEN "default" ELSE env.AXIOM_DATASET

\* the number of logger calls AxiomTestSuite.runAllTests can make
TestCalls == 14

\* AxiomTestSuite.runAllTests(); the failAt-th logger call throws (0: none does)
runAllTests(configured, failAt, now) ==
    LET ok(i) == i # failAt
        testConfiguration ==
            IF configured
            THEN log_info(<<"Axiom is properly configured">>,
                          [test |-> "configuration", status |-> "success"], ok(1), "test.1")
            ELSE log_warn(<<"Axiom is not configured - logs will only go to console">>,
                          [test |-> "configuration", status |-> "warning"], ok(1), "test.1")
        testBasicLogging ==
            Then(log_debug(<<"This is a debug message">>,
                           [test |-> "basic_logging", level |-> "debug", timestamp |-> "iso"],
                           ok(2), "test.2"),
            Then(log_info(<<"This is an info message">>,
                          [test |-> "basic_logging", level |-> "info",
                           data |-> [userId |-> 123, action |-> "test"]], ok(3), "test.3"),
                 log_warn(<<"This is a warning message">>,
                          [test |-> "basic_logging", level |-> "warn", reason |-> "test_warning"],
                          ok(4), "test.4")))
        appError == AppError(<<"test">>, <<"This is a test application error">>,
                             ErrorType.VALIDATION, 400,
                             [test |-> "error_logging", validationField |-> "email"], TRUE)
        testErrorLogging ==
            Then(logError(NewError(<<"test">>, <<"This is a test error">>),
                          [test |-> "error_logging", errorType |-> "test_error", context |-> "unit_test"],
                          ok(5), "test.5"),
                 log_error(<<"Application error occurred">>,
                           [test |-> "error_logging",
                            error |-> [name |-> appError.name, message |-> appError.message,
                                       type |-> appError.type, statusCode |-> appError.statusCode]],
                           ok(6), "test.6"))
        requestId == <<"test_", now>>
        testRequestResponseLogging ==
            Then(log_request(<<"Test API request">>,
                             [method |-> "POST", url |-> <<"/api/test">>, requestId |-> requestId,
                              userAgent |-> "AxiomTestSuite/1.0", ip |-> "127.0.0.1"],
                             ok(7), "test.7"),
                 log_response(<<"Test API response">>,
                              [method |-> "POST", url |-> <<"/api/test">>, requestId |-> requestId,
                               status |-> 200, duration |-> 100],
                              ok(8), "test.8"))
        logSelect ==
            Then(logOperationStart(DatabaseOperation.SELECT, "test_table",
                                   [requestId |-> <<"db_test_", now>>,
                                    query |-> "SELECT * FROM test_table WHERE id = ?"], ok(9)),
                 logOperationSettle(DatabaseOperation.SELECT, "test_table",
                                    [requestId |-> <<"db_test_", now>>,
                                     query |-> "SELECT * FROM test_table WHERE id = ?"],
                                    now, Ret(<<>>, QueryRows(1)), now, ok(10), ok(11)))
        logInsert ==
            Then(logOperationStart(DatabaseOperation.INSERT, "test_table",
                                   [requestId |-> <<"db_error_test_", now>>,
                                    query |-> "INSERT INTO test_table (name) VALUES (?)"], ok(12)),
                 logOperationSettle(DatabaseOperation.INSERT, "test_table",
                                    [requestId |-> <<"db_error_test_", now>>,
                                     query |-> "INSERT INTO test_table (name) VALUES (?)"],
                                    now, Thr(<<>>, NewError(<<"test">>, <<"Simulated database error">>)),
                                    now, TRUE, ok(13)))
        testDatabaseLogging ==
            Then(logSelect,
            Then(Ret(logInsert.recs, Undefined),      \* try { logInsert } catch { }
                 logConnection("connect", [database |-> "test.db", driver |-> "sqlite"],
                               ok(14))))
    IN  Then(testConfiguration,
        Then(testBasicLogging,
        Then(testErrorLogging,
        Then(testRequestResponseLogging, testDatabaseLogging))))

----------------------------------------------------------------------------
(* routes/api/test-logging/+server.ts: GET, POST *)

DefaultCount == 10

TestOpenText == [GET |-> "Testing Axiom logging endpoint", POST |-> "Generating test logs"]

TestFailText == [GET |-> "Axiom logging test failed", POST |-> "Failed to generate test logs"]

\* the log.request call that opens both handlers, before the try block
TestOpen(ev, requestId, ok) ==
    log_request(<<TestOpenText[ev.method]>>,
                [method |-> ev.method, url |-> ev.path, requestId |-> requestId,
                 userAgent |-> OrUndefined(ev.userAgent)],
                ok, "test.request")

\* the catch block of both handlers
TestCatch(ev, requestId, startTime, error, now, okE, okR) ==
    LET duration == now - startTime
    IN  Then(log_error(<<TestFailText[ev.method]>>,
                       [requestId |-> requestId, method |-> ev.method, url |-> ev.path,
                        duration |-> duration,
                        error |-> [name |-> NameOf(error), message |-> MessageOf(error),
                                   stack |-> StackOf(error)]],
                       okE, "test.error"),
        Then(log_response(<<TestFailText[ev.method]>>,
                          [method |-> ev.method, url |-> ev.path, requestId |-> requestId,
                           status |-> 500, duration |-> duration],
                          okR, "test.catch"),
             Ret(<<>>, json(500, [success |-> FALSE, message |-> <<TestFailText[ev.method]>>,
                                  error |-> MessageOf(error), duration |-> duration,
                                  timestamp |-> "iso"]))))

TestTry(t, ev, requestId, startTime, nowC, okE, okC) ==
    IF t.threw
    THEN After(t.recs, TestCatch(ev, requestId, startTime, t.failure, nowC, okE, okC))
    ELSE t

\* GET, the body of the try block
TestGetBody(ev, requestId, startTime, configured, failAt, nowT, now, okR) ==
    LET duration == now - startTime
    IN  Then(runAllTests(configured, failAt, nowT),
        Then(log_response(<<"Axiom logging test completed successfully">>,
                          [method |-> "GET", url |-> ev.path, requestId |-> requestId,
                           status |-> 200, duration |-> duration],
                          okR, "test.response"),
             Ret(<<>>, json(200, [success |-> TRUE,
                                  message |-> <<"Axiom logging test completed successfully">>,
                                  axiomConfigured |-> configured, duration |-> duration,
                                  timestamp |-> "iso"]))))

\* POST, one iteration of the loop that writes the test logs
TestLog(type, i, requestId, ok) ==
    IF type = "info"
    THEN log_info(<<"Test info log", ToString(i + 1)>>,
                  [test |-> "log_generation", iteration |-> i + 1, requestId |-> requestId,
                   data |-> [random |-> "random"]], ok, "test.loop")
    ELSE IF type = "warn"
    THEN log_warn(<<"Test warning log", ToString(i + 1)>>,
                  [test |-> "log_generation", iteration |-> i + 1, requestId |-> requestId,
                   reason |-> "test_warning"], ok, "test.loop")
    ELSE IF type = "error"
    THEN log_error(<<"Test error log", ToString(i + 1)>>,
                   [test |-> "log_generation", iteration |-> i + 1, requestId |-> requestId,
                    error |-> [name |-> "TestError",
                               message |-> <<"Simulated error", ToString(i + 1)>>,
                               stack |-> <<"Test stack trace">>]], ok, "test.loop")
    ELSE log_info(<<"Test log", ToString(i + 1)>>,
                  [test |-> "log_generation", iteration |-> i + 1, requestId |-> requestId],
                  ok, "test.loop")

\* for (let i = 0; i < count; i++); the failAt-th logger call throws (0: none does)
RECURSIVE TestLoop(_, _, _, _, _)
TestLoop(type, i, count, requestId, failAt) ==
    IF i >= count THEN Ret(<<>>, Undefined)
    ELSE Then(TestLog(type, i, requestId, i + 1 # failAt),
              TestLoop(type, i + 1, count, requestId, failAt))

\* POST, the body of the try block
TestPostBody(ev, requestId, startTime, failAt, now, okR) ==
    LET b == RequestJson(ev)
        count == IF b.value.count = -1 THEN DefaultCount ELSE b.value.count
        type == IF b.value.type = "" THEN "info" ELSE b.value.type
        duration == now - startTime
    IN  IF b.threw THEN b
        ELSE Then(TestLoop(type, 0, count, requestId, failAt),
             Then(log_response(<<"Test logs generated successfully">>,
                               [method |-> "POST", url |-> ev.path, requestId |-> requestId,
                                status |-> 200, duration |-> duration, logsGenerated |-> count],
                               okR, "test.response"),
                  Ret(<<>>, json(200, [success |-> TRUE,
                                       message |-> <<"Generated", ToString(count), "test logs of type", type>>,
                                       count |-> count, type |-> type, duration |-> duration,
                                       timestamp |-> "iso"]))))

----------------------------------------------------------------------------
(* The hosting runtime: requests and the downstream handler *)

ItemsPath == <<"/api/items">>

TestPath == <<"/api/test-logging">>

Paths == {<<"/", "health">>, <<"/">>, ItemsPath, TestPath}

Methods == {"GET", "POST", "PUT", "DELETE"}

UserAgents == {"", "curl"}

Messages == {<<"m1">>, <<"m2">>}

Names == {"", "Widget"}

Categories == {"", "Tools"}

Prices == {NoPrice, 19990, 5}

MaxCount == 2

Counts == {-1} \cup 0..MaxCount

LogTypes == {"", "warn", "error", "other"}

\* a body with no field set (count -1 and type "" stand for undefined)
NoBody == [valid |-> TRUE, message |-> <<>>, id |-> 0, name |-> "", description |-> "",
           category |-> "", price |-> NoPrice, count |-> -1, type |-> ""]

\* the JSON bodies a client may send with a request
Bodies(path, method) ==
    IF path \notin {ItemsPath, TestPath} \/ method = "GET" THEN {NoBody}
    ELSE IF path = TestPath
    THEN IF method # "POST" THEN {NoBody}
         ELSE {[NoBody EXCEPT !.valid = FALSE, !.message = m] : m \in Messages}
              \cup {[NoBody EXCEPT !.count = c, !.type = t] : c \in Counts, t \in LogTypes}
    ELSE {[NoBody EXCEPT !.valid = FALSE, !.message = m] : m \in Messages}
         \cup {[NoBody EXCEPT !.id = i, !.name = n, !.category = c, !.price = pr] :
                 i \in (IF method = "POST" THEN {0} ELSE 0..MaxItems),
                 n \in (IF method = "DELETE" THEN {""} ELSE Names),
                 c \in (IF method = "DELETE" THEN {""} ELSE Categories),
                 pr \in (IF method = "DELETE" THEN {NoPrice} ELSE Prices)}

\* failures an arbitrary downstream handler (page load, endpoint) may throw
DownstreamFailures ==
    {AppError(<<"handler">>, m, ErrorType.NOT_FOUND, 404, [resource |-> "Item"], TRUE) : m \in Messages}
    \cup {AppError(<<"handler">>, <<"m1">>, ErrorType.VALIDATION, 400,
                    [errorType |-> ErrorType.INTERNAL, statusCode |-> 500,
                     requestId |-> <<"req_", 0>>], FALSE)}
    \cup {AppError(<<"handler">>, <<"m1">>, ErrorType.INTERNAL, 500, <<>>, TRUE)}
    \cup {NewError(<<"handler">>, m) : m \in Messages}
    \cup {ThrownValue(<<"handler">>, "m1")}

UnsetLocals == [requestId |-> <<>>, startTime |-> -1]

NoEvent == [path |-> <<>>, method |-> "", clientAddrOk |-> TRUE, userAgent |-> "", body |-> NoBody]

NoRt == [requestId |-> <<>>, startTime |-> -1, insertId |-> 0, item |-> NoRow]

NoCall == [fn |-> "", operation |-> "", table |-> "", context |-> <<>>, startTime |-> -1,
           settled |-> Pending, caught |-> NoFailure, outcome |-> Pending]

\* the module db/index.ts has not been loaded
NoDatabase == [building |-> FALSE, url |-> "", db |-> 0, pools |-> 0, accesses |-> 0,
               failed |-> 0, last |-> Pending]

\* no logger instance has been created
NoLogger == [env |-> [AXIOM_TOKEN |-> "", AXIOM_DATASET |-> ""], transports |-> <<>>,
             warnings |-> <<>>, console |-> <<>>, buffer |-> <<>>, dataset |-> <<>>,
             calls |-> 0, last |-> [kind |-> "pending"]]

EmptyTable == [i \in ItemIds |-> NoRow]

FirstRow == [id |-> 1, name |-> "Widget", description |-> "null", category |-> "Tools", price |-> 1999]

Init ==
    /\ pc = "idle"
    /\ event = NoEvent
    /\ locals = UnsetLocals
    /\ logs = <<>>
    /\ idCount = 0
    /\ resolved = Pending
    /\ handled = Pending
    /\ payload = Pending
    /\ rt = NoRt
    /\ lib = NoCall
    /\ logger = NoLogger
    /\ database = NoDatabase
    /\ inflight = <<>>
    /\ \/ rows = EmptyTable /\ autoInc = 1
       \/ rows = [EmptyTable EXCEPT ![1] = FirstRow] /\ autoInc = 2

\* the runtime receives a request and invokes handle
Arrive ==
    /\ pc = "idle"
    /\ \E p \in Paths, m \in Methods, a \in BOOLEAN, ua \in UserAgents :
         \E b \in Bodies(p, m) :
            event' = [path |-> p, method |-> m, clientAddrOk |-> a, userAgent |-> ua, body |-> b]
    /\ pc' = "handle"
    /\ UNCHANGED <<locals, logs, idCount, resolved, handled, payload, rt, rows, autoInc, lib, logger, inflight,
                   database>>

\* handle up to the call of resolve(event)
HandleEnter ==
    /\ pc = "handle"
    /\ IF ~shouldLogRequest(event.path)
       THEN /\ pc' = "resolve"
            /\ UNCHANGED <<locals, logs, idCount, handled>>
       ELSE \E now \in Clock, ok \in BOOLEAN :
              LET requestId == generateRequestId(idCount + 1)
                  r == HandleOpen(event, requestId, ok)
              IN  /\ idCount' = idCount + 1
                  /\ locals' = [requestId |-> requestId, startTime |-> now]
                  /\ logs' = logs \o r.recs
                  /\ IF r.threw
                     THEN /\ handled' = Threw(r.failure)
                          /\ pc' = "handleError"
                     ELSE /\ handled' = handled
                          /\ pc' = "resolve"
    /\ UNCHANGED <<event, resolved, payload, rt, rows, autoInc, lib, logger, inflight, database>>

\* resolve(event) for a route that is not modelled in detail: it settles with
\* a response or with a thrown failure
ResolveDownstream ==
    /\ pc = "resolve"
    /\ event.path # ItemsPath
    /\ ~(event.path = TestPath /\ event.method \in {"GET", "POST"})
    /\ \/ \E s \in {200, 404} : resolved' = Response(<<"downstream">>, s, [page |-> "html"])
       \/ \E f \in DownstreamFailures : resolved' = Threw(f)
    /\ pc' = "settled"
    /\ UNCHANGED <<event, locals, logs, idCount, handled, payload, rt, rows, autoInc, lib, logger, inflight,
                   database>>

\* the effect of a piece r of a route handler: the handler returned, threw,
\* or awaits its next persistence call
RouteStep(r) ==
    /\ logs' = logs \o r.recs
    /\ IF r.threw
       THEN resolved' = Threw(r.failure) /\ pc' = "settled"
       ELSE IF r.value.kind = "response"
       THEN resolved' = r.value /\ pc' = "settled"
       ELSE resolved' = resolved /\ pc' = r.value.next

\* an items handler from its first line to its first persistence call
ItemsEnter ==
    /\ pc = "resolve"
    /\ event.path = ItemsPath
    /\ \E start \in Clock, now \in Clock, nowC \in Clock,
          ok \in BOOLEAN, okW \in BOOLEAN, okR \in BOOLEAN, okE \in BOOLEAN, okC \in BOOLEAN :
         LET requestId == generateRequestId(idCount + 1)
             r == Then(ItemsOpen(event, requestId, ok),
                       ItemsTry(ItemsParse(event, requestId, start, now, okW, okR),
                                event, requestId, start, nowC, okE, okC))
         IN  /\ idCount' = idCount + 1
             /\ rt' = [rt EXCEPT !.requestId = requestId, !.startTime = start]
             /\ RouteStep(r)
    /\ UNCHANGED <<event, locals, handled, payload, rows, autoInc, lib, logger, inflight, database>>

\* GET: await db.select() and the rest of the handler
ItemsGetSelect ==
    /\ pc = "items.get.select"
    /\ \E fail \in {<<>>} \cup Messages, now \in Clock, nowC \in Clock,
          okR \in BOOLEAN, okE \in BOOLEAN, okC \in BOOLEAN :
         LET allItems == SelectAll(rows)
             duration == now - rt.startTime
             t == IF fail # <<>> THEN Thr(<<>>, DbFailure(fail))
                  ELSE Then(log_response(<<"Successfully fetched items">>,
                                [method |-> "GET", url |-> event.path, requestId |-> rt.requestId,
                                 status |-> 200, duration |-> duration,
                                 itemCount |-> Len(allItems)],
                                okR, "items.response"),
                            Ret(<<>>, json(200, allItems)))
         IN  RouteStep(ItemsTry(t, event, rt.requestId, rt.startTime, nowC, okE, okC))
    /\ UNCHANGED <<event, locals, idCount, handled, payload, rt, rows, autoInc, lib, logger, inflight, database>>

\* POST: await db.insert(items).values(itemData)
ItemsPostInsert ==
    /\ pc = "items.post.insert"
    /\ \E fail \in {<<>>} \cup Messages, nowC \in Clock, okE \in BOOLEAN, okC \in BOOLEAN :
         /\ fail = <<>> => autoInc <= MaxItems
         /\ LET t == IF fail # <<>> THEN Thr(<<>>, DbFailure(fail))
                     ELSE Ret(<<>>, Await("items.post.select"))
            IN  /\ RouteStep(ItemsTry(t, event, rt.requestId, rt.startTime, nowC, okE, okC))
                /\ IF fail = <<>>
                   THEN /\ rows' = InsertRow(rows, autoInc, ItemData(event.body))
                        /\ autoInc' = autoInc + 1
                        /\ rt' = [rt EXCEPT !.insertId = autoInc]
                   ELSE UNCHANGED <<rows, autoInc, rt>>
    /\ UNCHANGED <<event, locals, idCount, handled, payload, lib, logger, inflight, database>>

\* POST: await db.select() of the inserted row and the rest of the handler
ItemsPostSelect ==
    /\ pc = "items.post.select"
    /\ \E fail \in {<<>>} \cup Messages, now \in Clock, nowC \in Clock,
          okD \in BOOLEAN, okR \in BOOLEAN, okE \in BOOLEAN, okC \in BOOLEAN :
         LET newItem == SelectById(rows, rt.insertId)
             t == IF fail # <<>> THEN Thr(<<>>, DbFailure(fail))
                  ELSE IF newItem = <<>>
                  THEN Thr(<<>>, [NewError(<<"newItem[0]">>, <<"Cannot read properties of undefined">>)
                                    EXCEPT !.name = "TypeError"])
                  ELSE ItemsDone(event, rt.requestId, rt.startTime, "insert",
                                 "Item created successfully", "Successfully created item",
                                 201, newItem[1].id, newItem[1], now, okD, okR)
         IN  RouteStep(ItemsTry(t, event, rt.requestId, rt.startTime, nowC, okE, okC))
    /\ UNCHANGED <<event, locals, idCount, handled, payload, rt, rows, autoInc, lib, logger, inflight, database>>

\* PUT: await db.update(items).set(updateData).where(eq(items.id, id))
ItemsPutUpdate ==
    /\ pc = "items.put.update"
    /\ \E fail \in {<<>>} \cup Messages, nowC \in Clock, okE \in BOOLEAN, okC \in BOOLEAN :
         LET t == IF fail # <<>> THEN Thr(<<>>, DbFailure(fail))
                  ELSE Ret(<<>>, Await("items.put.select"))
         IN  /\ RouteStep(ItemsTry(t, event, rt.requestId, rt.startTime, nowC, okE, okC))
             /\ rows' = IF fail = <<>> THEN UpdateRow(rows, event.body.id, ItemData(event.body))
                        ELSE rows
    /\ UNCHANGED <<event, locals, idCount, handled, payload, rt, autoInc, lib, logger, inflight, database>>

\* PUT: await db.select() of the updated row and the rest of the handler
ItemsPutSelect ==
    /\ pc = "items.put.select"
    /\ \E fail \in {<<>>} \cup Messages, now \in Clock, nowC \in Clock,
          okD \in BOOLEAN, okR \in BOOLEAN, okE \in BOOLEAN, okC \in BOOLEAN :
         LET id == event.body.id
             updatedItem == SelectById(rows, id)
             t == IF fail # <<>> THEN Thr(<<>>, DbFailure(fail))
                  ELSE IF Len(updatedItem) = 0
                  THEN ItemsNotFound(event, rt.requestId, rt.startTime,
                                     "Item not found for update", id, now, okD, okR)
                  ELSE ItemsDone(event, rt.requestId, rt.startTime, "update",
                                 "Item updated successfully", "Successfully updated item",
                                 200, id, updatedItem[1], now, okD, okR)
         IN  RouteStep(ItemsTry(t, event, rt.requestId, rt.startTime, nowC, okE, okC))
    /\ UNCHANGED <<event, locals, idCount, handled, payload, rt, rows, autoInc, lib, logger, inflight, database>>

\* DELETE: await db.select() of the row to delete
ItemsDeleteSelect ==
    /\ pc = "items.delete.select"
    /\ \E fail \in {<<>>} \cup Messages, now \in Clock, nowC \in Clock,
          okW \in BOOLEAN, okR \in BOOLEAN, okE \in BOOLEAN, okC \in BOOLEAN :
         LET id == event.body.id
             itemToDelete == SelectById(rows, id)
             t == IF fail # <<>> THEN Thr(<<>>, DbFailure(fail))
                  ELSE IF Len(itemToDelete) = 0
                  THEN ItemsNotFound(event, rt.requestId, rt.startTime,
                                     "Item not found for deletion", id, now, okW, okR)
                  ELSE Ret(<<>>, Await("items.delete.delete"))
         IN  /\ RouteStep(ItemsTry(t, event, rt.requestId, rt.startTime, nowC, okE, okC))
             /\ rt' = IF fail = <<>> /\ Len(itemToDelete) > 0
                      THEN [rt EXCEPT !.item = itemToDelete[1]] ELSE rt
    /\ UNCHANGED <<event, locals, idCount, handled, payload, rows, autoInc, lib, logger, inflight, database>>

\* DELETE: await db.delete(items).where(eq(items.id, id)) and the rest of the handler
ItemsDeleteDelete ==
    /\ pc = "items.delete.delete"
    /\ \E fail \in {<<>>} \cup Messages, now \in Clock, nowC \in Clock,
          okD \in BOOLEAN, okR \in BOOLEAN, okE \in BOOLEAN, okC \in BOOLEAN :
         LET id == event.body.id
             t == IF fail # <<>> THEN Thr(<<>>, DbFailure(fail))
                  ELSE ItemsDone(event, rt.requestId, rt.startTime, "delete",
                                 "Item deleted successfully", "Successfully deleted item",
                                 200, id, rt.item, now, okD, okR)
         IN  /\ RouteStep(ItemsTry(t, event, rt.requestId, rt.startTime, nowC, okE, okC))
             /\ rows' = IF fail = <<>> THEN DeleteRow(rows, id) ELSE rows
    /\ UNCHANGED <<event, locals, idCount, handled, payload, rt, autoInc, lib, logger, inflight, database>>

\* GET /api/test-logging
TestLoggingGet ==
    /\ pc = "resolve"
    /\ event.path = TestPath /\ event.method = "GET"
    /\ \E start \in Clock, now \in Clock, nowC \in Clock, failAt \in 0..TestCalls,
          token \in {"", "xaat"}, dataset \in {"", "logs"},
          ok \in BOOLEAN, okR \in BOOLEAN, okE \in BOOLEAN, okC \in BOOLEAN :
         LET requestId == generateRequestId(idCount + 1)
             configured == isAxiomConfigured([AXIOM_TOKEN |-> token, AXIOM_DATASET |-> dataset])
             r == Then(TestOpen(event, requestId, ok),
                       TestTry(TestGetBody(event, requestId, start, configured, failAt, now, now, okR),
                               event, requestId, start, nowC, okE, okC))
         IN  /\ idCount' = idCount + 1
             /\ rt' = [rt EXCEPT !.requestId = requestId, !.startTime = start]
             /\ RouteStep(r)
    /\ UNCHANGED <<event, locals, handled, payload, rows, autoInc, lib, logger, inflight, database>>

\* POST /api/test-logging
TestLoggingPost ==
    /\ pc = "resolve"
    /\ event.path = TestPath /\ event.method = "POST"
    /\ \E start \in Clock, now \in Clock, nowC \in Clock, failAt \in 0..DefaultCount,
          ok \in BOOLEAN, okR \in BOOLEAN, okE \in BOOLEAN, okC \in BOOLEAN :
         LET requestId == generateRequestId(idCount + 1)
             r == Then(TestOpen(event, requestId, ok),
                       TestTry(TestPostBody(event, requestId, start, failAt, now, okR),
                               event, requestId, start, nowC, okE, okC))
         IN  /\ idCount' = idCount + 1
             /\ rt' = [rt EXCEPT !.requestId = requestId, !.startTime = start]
             /\ RouteStep(r)
    /\ UNCHANGED <<event, locals, handled, payload, rows, autoInc, lib, logger, inflight, database>>

\* handle after resolve(event) has settled
HandleExit ==
    /\ pc = "settled"
    /\ IF ~shouldLogRequest(event.path)
       THEN /\ handled' = resolved
            /\ logs' = logs
       ELSE \E now1 \in Clock, now2 \in Clock, ok1 \in BOOLEAN, ok2 \in BOOLEAN, ok3 \in BOOLEAN :
              LET r == HandleClose(event, locals.requestId, locals.startTime, resolved,
                                   now1, ok1, now2, ok2, ok3)
              IN  /\ handled' = OutcomeOf(r)
                  /\ logs' = logs \o r.recs
    /\ pc' = IF handled'.kind = "throw" THEN "handleError" ELSE "done"
    /\ UNCHANGED <<event, locals, idCount, resolved, payload, rt, rows, autoInc, lib, logger, inflight, database>>

\* the runtime hands a failure that escaped handle to handleError
HandleError ==
    /\ pc = "handleError"
    /\ \E ok \in BOOLEAN :
          LET r == handleErrorHook(handled.failure, event, locals,
                                   generateRequestId(idCount + 1), ok)
          IN  /\ payload' = IF r.threw THEN Threw(r.failure) ELSE Returned(r.value)
              /\ logs' = logs \o r.recs
              /\ idCount' = IF locals.requestId # <<>> THEN idCount ELSE idCount + 1
    /\ pc' = "done"
    /\ UNCHANGED <<event, locals, resolved, handled, rt, rows, autoInc, lib, logger, inflight, database>>

Next ==
    \/ Arrive
    \/ HandleEnter
    \/ ResolveDownstream
    \/ ItemsEnter
    \/ ItemsGetSelect
    \/ ItemsPostInsert
    \/ ItemsPostSelect
    \/ ItemsPutUpdate
    \/ ItemsPutSelect
    \/ ItemsDeleteSelect
    \/ ItemsDeleteDelete
    \/ TestLoggingGet
    \/ TestLoggingPost
    \/ HandleExit
    \/ HandleError

Spec == Init /\ [][Next]_vars

----------------------------------------------------------------------------
(* routes/+page.server.ts: the load function of the home page *)

\* value || 'Not set'
OrNotSet(v) == IF v = Undefined \/ v = "" THEN "Not set" ELSE v

\* the evaluation of the identifier dbStartTime in the catch block (line 76):
\* the const of that name is declared inside the try block (line 65) and is
\* not in scope there, so the evaluation throws
DbStartTimeInCatch ==
    [oid |-> <<"load", "catch">>, cls |-> "Error", name |-> "ReferenceError",
     message |-> <<"dbStartTime is not defined">>,
     stack |-> <<"ReferenceError:", "dbStartTime is not defined", "at">>]

\* load, lines 64-88: the try block once the select has settled with q, and
\* the catch block; the value is allItems
LoadItems(q, dbStartTime, now, ok) ==
    LET t == IF q.threw THEN q
             ELSE Then(log_database(<<"Successfully loaded items for page">>,
                                    [operation |-> "select", table |-> "items",
                                     duration |-> now - dbStartTime,
                                     rowsAffected |-> Len(q.value)],
                                    ok, "load.select"),
                       Ret(<<>>, q.value))
    IN  IF ~t.threw THEN t ELSE Thr(t.recs, DbStartTimeInCatch)

\* load, lines 45-117
load(privateEnv, publicEnv, nodeEnv, q, startTime, dbStartTime, now1, now2, now3, ok1, ok2, ok3) ==
    LET opening == log_info(<<"Loading page data">>,
                            [operation |-> "page_load", page |-> "home"], ok1, "load.start")
        loaded == Then(opening, LoadItems(q, dbStartTime, now1, ok2))
    IN  IF loaded.threw THEN loaded
        ELSE LET allItems == loaded.value
                 closing == log_info(<<"Page data loaded successfully">>,
                                     [operation |-> "page_load", page |-> "home",
                                      duration |-> now2 - startTime,
                                      itemCount |-> Len(allItems)],
                                     ok3, "load.done")
             IN  After(loaded.recs,
                       Then(closing,
                            Ret(<<>>,
                                [envVars |->
                                    [dynamic |-> [publicKey |-> OrNotSet(publicEnv.PUBLIC_DYNAMIC_KEY),
                                                  privateKey |-> OrNotSet(privateEnv.DYNAMIC_PRIVATE_KEY)],
                                     static |-> [publicKey |-> OrNotSet(publicEnv.PUBLIC_STATIC_KEY),
                                                 privateKey |-> OrNotSet(privateEnv.STATIC_PRIVATE_KEY)]],
                                 serverInfo |-> [timestamp |-> now3,
                                                 nodeEnv |-> IF nodeEnv = Undefined \/ nodeEnv = ""
                                                             THEN "development" ELSE nodeEnv],
                                 items |-> allItems])))

----------------------------------------------------------------------------
(* Direct calls of the wrappers of errors.ts and database.ts *)

\* contexts a caller may pass to a wrapper
CallContexts == {<<>>, [requestId |-> <<"req_", 1>>, query |-> "SELECT 1"]}

InitLib ==
    /\ pc = "lib"
    /\ event = NoEvent
    /\ locals = UnsetLocals
    /\ logs = <<>>
    /\ idCount = 0
    /\ resolved = Pending
    /\ handled = Pending
    /\ payload = Pending
    /\ rt = NoRt
    /\ rows = EmptyTable /\ autoInc = 1
    /\ lib = NoCall
    /\ logger = NoLogger
    /\ database = NoDatabase
    /\ inflight = <<>>

\* DatabaseLogger.logOperation(operation, table, queryFn, context) up to the
\* call of queryFn
LogOperationCall ==
    /\ pc = "lib"
    /\ \E op \in {DatabaseOperation[k] : k \in DOMAIN DatabaseOperation},
          context \in CallContexts, now \in Clock, ok \in BOOLEAN :
         LET table == IF op = DatabaseOperation.TRANSACTION THEN "transaction" ELSE "items"
             r == logOperationStart(op, table, context, ok)
         IN  /\ logs' = logs \o r.recs
             /\ lib' = [NoCall EXCEPT !.fn = "logOperation", !.operation = op, !.table = table,
                                      !.context = context, !.startTime = now,
                                      !.outcome = IF r.threw THEN Threw(r.failure) ELSE Pending]
             /\ pc' = IF r.threw THEN "lib.done" ELSE "lib.query"
    /\ UNCHANGED <<event, locals, idCount, resolved, handled, payload, rt, rows, autoInc,
                   logger, inflight, database>>

\* queryFn() settles and logOperation finishes
LogOperationSettle ==
    /\ pc = "lib.query"
    /\ \E now \in Clock, okDone \in BOOLEAN, okErr \in BOOLEAN :
         \/ \E v \in {QueryRows(0), QueryRows(1), QueryChanges(1), QueryValue} :
              LET r == logOperationSettle(lib.operation, lib.table, lib.context, lib.startTime,
                                          Ret(<<>>, v), now, okDone, okErr)
              IN  /\ logs' = logs \o r.recs
                  /\ lib' = [lib EXCEPT !.settled = Returned(v),
                                        !.outcome = IF r.threw THEN Threw(r.failure)
                                                    ELSE Returned(r.value)]
         \/ \E f \in DownstreamFailures :
              LET r == logOperationSettle(lib.operation, lib.table, lib.context, lib.startTime,
                                          Thr(<<>>, f), now, okDone, okErr)
              IN  /\ logs' = logs \o r.recs
                  /\ lib' = [lib EXCEPT !.settled = Threw(f), !.caught = f,
                                        !.outcome = IF r.threw THEN Threw(r.failure)
                                                    ELSE Returned(r.value)]
    /\ pc' = "lib.done"
    /\ UNCHANGED <<event, locals, idCount, resolved, handled, payload, rt, rows, autoInc,
                   logger, inflight, database>>

\* withErrorHandling(fn, context)(...args), fn rejecting or resolving
WithErrorHandlingCall ==
    /\ pc = "lib"
    /\ \E context \in CallContexts, ok \in BOOLEAN :
         \/ LET r == withErrorHandling(Ret(<<>>, QueryValue), context, ok)
            IN  /\ logs' = logs \o r.recs
                /\ lib' = [NoCall EXCEPT !.fn = "withErrorHandling", !.context = context,
                                         !.outcome = Returned(r.value)]
         \/ \E f \in DownstreamFailures :
              LET r == withErrorHandling(Thr(<<>>, f), context, ok)
              IN  /\ logs' = logs \o r.recs
                  /\ lib' = [NoCall EXCEPT !.fn = "withErrorHandling", !.context = context,
                                           !.caught = f, !.outcome = Threw(r.failure)]
    /\ pc' = "lib.done"
    /\ UNCHANGED <<event, locals, idCount, resolved, handled, payload, rt, rows, autoInc,
                   logger, inflight, database>>

\* createErrorResponse(error, requestContext)
CreateErrorResponseCall ==
    /\ pc = "lib"
    /\ \E context \in CallContexts, ok \in BOOLEAN, f \in DownstreamFailures :
         /\ IsError(f)
         /\ LET r == createErrorResponse(f, context, ok)
            IN  /\ logs' = logs \o r.recs
                /\ lib' = [NoCall EXCEPT !.fn = "createErrorResponse", !.context = context,
                                         !.caught = f,
                                         !.outcome = IF r.threw THEN Threw(r.failure)
                                                     ELSE Returned(r.value)]
    /\ pc' = "lib.done"
    /\ UNCHANGED <<event, locals, idCount, resolved, handled, payload, rt, rows, autoInc,
                   logger, inflight, database>>

\* the arguments a caller may give to new AppError after the message
CtorArgs ==
    {<<>>, <<ErrorType.RATE_LIMIT>>, <<ErrorType.RATE_LIMIT, 429>>,
     <<ErrorType.RATE_LIMIT, 429, [resource |-> "Item"]>>,
     <<ErrorType.RATE_LIMIT, 429, [resource |-> "Item"], FALSE>>}

\* new AppError(...) or one of the factory functions
ConstructErrorCall ==
    /\ pc = "lib"
    /\ \E message \in Messages :
         \/ \E args \in CtorArgs :
              lib' = [NoCall EXCEPT !.fn = "AppError", !.context = args,
                                    !.outcome = Returned(NewAppError(<<"new">>, message, args))]
         \/ \E fn \in {"createValidationError", "createNotFoundError", "createAuthError",
                        "createAuthzError", "createDatabaseError"}, id \in 0..1 :
              LET e == CASE fn = "createValidationError" ->
                                createValidationError(<<"new">>, message, [name |-> <<"required">>])
                         [] fn = "createNotFoundError" -> createNotFoundError(<<"new">>, "Item", id)
                         [] fn = "createAuthError" -> createAuthError(<<"new">>, message)
                         [] fn = "createAuthzError" -> createAuthzError(<<"new">>, message)
                         [] OTHER -> createDatabaseError(<<"new">>, message, "select", "items")
              IN  lib' = [NoCall EXCEPT !.fn = fn, !.outcome = Returned(e)]
    /\ pc' = "lib.done"
    /\ UNCHANGED <<event, locals, logs, idCount, resolved, handled, payload, rt, rows, autoInc,
                   logger, inflight, database>>

\* the environment of the page: keys set or not
PageEnvs == {[priv |-> [DYNAMIC_PRIVATE_KEY |-> a, STATIC_PRIVATE_KEY |-> "s"],
              pub |-> [PUBLIC_DYNAMIC_KEY |-> "p", PUBLIC_STATIC_KEY |-> b],
              node |-> n] :
                a \in {Undefined, "d"}, b \in {Undefined, ""}, n \in {Undefined, "production"}}

\* what db.select().from(items).orderBy(items.createdAt) resolves with: the
\* ids of the rows of the table
SelectResults == {[i \in 1..n |-> i] : n \in 0..MaxItems}

\* load() of the home page, the select resolving or rejecting
PageLoadCall ==
    /\ pc = "lib"
    /\ \E e \in PageEnvs, startTime \in Clock, dbStartTime \in Clock, now1 \in Clock,
          now2 \in Clock, now3 \in Clock, ok1 \in BOOLEAN, ok2 \in BOOLEAN, ok3 \in BOOLEAN :
         \/ \E v \in SelectResults :
              LET r == load(e.priv, e.pub, e.node, Ret(<<>>, v), startTime, dbStartTime,
                            now1, now2, now3, ok1, ok2, ok3)
              IN  /\ logs' = logs \o r.recs
                  /\ lib' = [NoCall EXCEPT !.fn = "load", !.startTime = startTime,
                                           !.settled = Returned(v),
                                           !.outcome = IF r.threw THEN Threw(r.failure)
                                                       ELSE Returned(r.value)]
         \/ \E f \in DownstreamFailures :
              LET r == load(e.priv, e.pub, e.node, Thr(<<>>, f), startTime, dbStartTime,
                            now1, now2, now3, ok1, ok2, ok3)
              IN  /\ logs' = logs \o r.recs
                  /\ lib' = [NoCall EXCEPT !.fn = "load", !.startTime = startTime,
                                           !.settled = Threw(f), !.caught = f,
                                           !.outcome = IF r.threw THEN Threw(r.failure)
                                                       ELSE Returned(r.value)]
    /\ pc' = "lib.done"
    /\ UNCHANGED <<event, locals, idCount, resolved, handled, payload, rt, rows, autoInc,
                   logger, inflight, database>>

\* the options a route may pass to withLogging (<<>>: none given)
LoggingOptions ==
    {<<>>} \cup {[logRequest |-> a] : a \in BOOLEAN} \cup {[logResponse |-> b] : b \in BOOLEAN}
    \cup {[logRequest |-> a, logResponse |-> b] : a \in BOOLEAN, b \in BOOLEAN}

\* what a wrapped handler settles with
HandlerOutcomes ==
    {Response(<<"wrapped">>, st, [page |-> "html"]) : st \in {200, 404}}
    \cup {Returned(QueryValue)}
    \cup {Threw(f) : f \in DownstreamFailures}

\* a handler wrapped by withLogging is invoked and settles
WithLoggingCall ==
    /\ pc = "lib"
    /\ \E options \in LoggingOptions, h \in HandlerOutcomes, p \in {<<"/">>, ItemsPath},
          startTime \in Clock, now1 \in Clock, now2 \in Clock,
          ok1 \in BOOLEAN, ok2 \in BOOLEAN, ok3 \in BOOLEAN :
         LET ev == [NoEvent EXCEPT !.path = p, !.method = "GET"]
             requestId == generateRequestId(idCount + 1)
             r == withLogging(options, ev, requestId, startTime, h, now1, now2, ok1, ok2, ok3)
         IN  /\ idCount' = idCount + 1
             /\ logs' = logs \o r.recs
             /\ lib' = [NoCall EXCEPT !.fn = "withLogging", !.context = options,
                                      !.startTime = startTime, !.settled = h,
                                      !.outcome = IF r.threw THEN Threw(r.failure) ELSE r.value]
    /\ pc' = "lib.done"
    /\ UNCHANGED <<event, locals, resolved, handled, payload, rt, rows, autoInc, logger,
                   inflight, database>>

NextLib ==
    \/ ConstructErrorCall
    \/ WithLoggingCall
    \/ PageLoadCall
    \/ LogOperationCall
    \/ LogOperationSettle
    \/ WithErrorHandlingCall
    \/ CreateErrorResponseCall

SpecLib == InitLib /\ [][NextLib]_vars

----------------------------------------------------------------------------
(* logger.ts: createLogger, and a record on its way to the destinations *)

MaxCalls == 2

\* the environment the server may be started with
Envs == {[AXIOM_TOKEN |-> t, AXIOM_DATASET |-> d] : t \in {"", "xaat"}, d \in {"", "logs"}}

LogLevels == <<"debug", "info", "warn", "error">>

LevelRank(level) == CHOOSE i \in DOMAIN LogLevels : LogLevels[i] = level

\* new ConsoleTransport({logLevel, prettyPrint: true})
ConsoleTransport(logLevel) == [kind |-> "console", dataset |-> "", logLevel |-> logLevel]

\* new AxiomJSTransport({axiom, dataset, logLevel})
AxiomJSTransport(dataset, logLevel) == [kind |-> "axiom", dataset |-> dataset, logLevel |-> logLevel]

\* createLogger with the remote transport taking every level
createLogger_RemoteDebug(env) ==
    LET console == <<ConsoleTransport("debug")>>
    IN  IF isAxiomConfigured(env)
        THEN [transports |-> console \o <<AxiomJSTransport(getDatasetName(env), "debug")>>,
              warnings |-> <<>>]
        ELSE [transports |-> console,
              warnings |-> <<"Axiom not configured. Logs will only be sent to console.">>]

\* createLogger(), lines 56-83: the transports of the logger and the
\* warnings printed while it is built
createLogger(env) ==
    LET console == <<ConsoleTransport("debug")>>
    IN  IF isAxiomConfigured(env)
        THEN [transports |-> console \o <<AxiomJSTransport(getDatasetName(env), "info")>>,
              warnings |-> <<>>]
        ELSE [transports |-> console,
              warnings |-> <<"Axiom not configured. Logs will only be sent to console.">>]

\* the facade functions of log and the record each one hands to the logger
LogFunctions == {"debug", "info", "warn", "error", "request", "response", "database"}

FacadeRecord(fn, message, context) ==
    LET r == CASE fn = "debug" -> log_debug(message, context, TRUE, "log")
               [] fn = "info" -> log_info(message, context, TRUE, "log")
               [] fn = "warn" -> log_warn(message, context, TRUE, "log")
               [] fn = "error" -> log_error(message, context, TRUE, "log")
               [] fn = "request" -> log_request(message, context, TRUE, "log")
               [] fn = "response" -> log_response(message, context, TRUE, "log")
               [] OTHER -> log_database(message, context, TRUE, "log")
    IN  r.recs[1]

\* the transports of a logger that take a record of this level
Accepting(transports, level) ==
    {transports[i].kind : i \in {j \in DOMAIN transports :
                                    LevelRank(level) >= LevelRank(transports[j].logLevel)}}

\* logger.<level>(message, fields): the record goes to the transports in turn;
\* a transport in fails throws from its log(), and the call either goes on
\* with the next transport (contained) or ends by throwing to its caller
RECURSIVE Deliver(_, _, _, _, _)
Deliver(transports, i, rec, fails, contained) ==
    IF i > Len(transports) THEN [to |-> {}, threw |-> FALSE]
    ELSE LET t == transports[i]
             rest == Deliver(transports, i + 1, rec, fails, contained)
         IN  IF t.kind \in fails
             THEN IF contained THEN rest ELSE [to |-> {}, threw |-> TRUE]
             ELSE [to |-> (IF t.kind \in Accepting(transports, rec.level) THEN {t.kind} ELSE {})
                            \cup rest.to,
                   threw |-> rest.threw]

InitLogger ==
    /\ pc = "logger.start"
    /\ event = NoEvent
    /\ locals = UnsetLocals
    /\ logs = <<>>
    /\ idCount = 0
    /\ resolved = Pending
    /\ handled = Pending
    /\ payload = Pending
    /\ rt = NoRt
    /\ rows = EmptyTable /\ autoInc = 1
    /\ lib = NoCall
    /\ inflight = <<>>
    /\ \E env \in Envs : logger = [NoLogger EXCEPT !.env = env]
    /\ database = NoDatabase

\* the module is loaded: export const logger = createLogger()
CreateLogger ==
    /\ pc = "logger.start"
    /\ LET l == createLogger(logger.env)
       IN  logger' = [logger EXCEPT !.transports = l.transports, !.warnings = l.warnings]
    /\ pc' = "logger.ready"
    /\ UNCHANGED <<event, locals, logs, idCount, resolved, handled, payload, rt, rows, autoInc,
                   lib, inflight, database>>

\* a call of log.debug/info/warn/error/request/response/database
LogFacadeCall ==
    /\ pc = "logger.ready"
    /\ logger.calls < MaxCalls
    /\ \E fn \in LogFunctions, message \in Messages, contained \in BOOLEAN,
          fails \in SUBSET {logger.transports[i].kind : i \in DOMAIN logger.transports} :
         LET rec == FacadeRecord(fn, message, [requestId |-> generateRequestId(logger.calls + 1)])
             d == Deliver(logger.transports, 1, rec, fails, contained)
         IN  logger' = [logger EXCEPT
                 !.calls = @ + 1,
                 !.console = IF "console" \in d.to THEN Append(@, rec) ELSE @,
                 !.buffer = IF "axiom" \in d.to THEN Append(@, rec) ELSE @,
                 !.last = [kind |-> IF d.threw THEN "throw" ELSE "returned",
                           rec |-> rec, fails |-> fails, to |-> d.to]]
    /\ UNCHANGED <<pc, event, locals, logs, idCount, resolved, handled, payload, rt, rows,
                   autoInc, lib, inflight, database>>

\* the remote transport flushes its buffer: axiom.ingest succeeds, or fails
\* and the client's onError prints the failure on the console
AxiomFlush ==
    /\ pc = "logger.ready"
    /\ logger.buffer # <<>>
    /\ \E ok \in BOOLEAN :
         logger' = [logger EXCEPT
             !.buffer = <<>>,
             !.dataset = IF ok THEN @ \o logger.buffer ELSE @,
             !.console = IF ok THEN @
                         ELSE Append(@, LogRecord("error", <<"Axiom client error:">>, <<>>))]
    /\ UNCHANGED <<pc, event, locals, logs, idCount, resolved, handled, payload, rt, rows,
                   autoInc, lib, inflight, database>>

NextLogger ==
    \/ CreateLogger
    \/ LogFacadeCall
    \/ AxiomFlush

SpecLogger == InitLogger /\ [][NextLogger]_vars

----------------------------------------------------------------------------
(* Requests served concurrently: handle is async, and the runtime runs the
   handlers of several requests interleaved at their awaits; the logger and
   the id generator are shared *)

MaxRequests == 2

Requests == 1..MaxRequests

\* a request the runtime has not received yet
IdleRequest == [pc |-> "idle", event |-> NoEvent, locals |-> UnsetLocals,
                resolved |-> Pending, handled |-> Pending]

\* failures the downstream handler of a concurrent request may throw
ConcurrentFailures ==
    {f \in DownstreamFailures :
        /\ IsError(f) => f.message = <<"m1">>
        /\ IsAppError(f) => f.statusCode = 404}

\* the requests are served within one tick of the clock
Tick == {0}

InitConcurrent ==
    /\ pc = "concurrent"
    /\ event = NoEvent
    /\ locals = UnsetLocals
    /\ logs = <<>>
    /\ idCount = 0
    /\ resolved = Pending
    /\ handled = Pending
    /\ payload = Pending
    /\ rt = NoRt
    /\ rows = EmptyTable /\ autoInc = 1
    /\ lib = NoCall
    /\ logger = NoLogger
    /\ database = NoDatabase
    /\ inflight = [i \in Requests |-> IdleRequest]

\* the runtime receives request i and invokes handle, which runs up to its
\* await of resolve(event)
ConcurrentEnter(i) ==
    /\ inflight[i].pc = "idle"
    /\ \E p \in {<<"/", "health">>, <<"/">>} :
         LET ev == [NoEvent EXCEPT !.path = p, !.method = "GET"]
         IN  IF ~shouldLogRequest(p)
             THEN /\ inflight' = [inflight EXCEPT ![i].pc = "resolve", ![i].event = ev]
                  /\ UNCHANGED <<logs, idCount>>
             ELSE \E now \in Tick, ok \in BOOLEAN :
                    LET requestId == generateRequestId(idCount + 1)
                        r == HandleOpen(ev, requestId, ok)
                    IN  /\ idCount' = idCount + 1
                        /\ logs' = logs \o r.recs
                        /\ inflight' = [inflight EXCEPT
                               ![i].event = ev,
                               ![i].locals = [requestId |-> requestId, startTime |-> now],
                               ![i].handled = IF r.threw THEN Threw(r.failure) ELSE @,
                               ![i].pc = IF r.threw THEN "done" ELSE "resolve"]
    /\ UNCHANGED <<pc, event, locals, resolved, handled, payload, rt, rows, autoInc, lib, logger, database>>

\* resolve(event) of request i settles
ConcurrentResolve(i) ==
    /\ inflight[i].pc = "resolve"
    /\ \/ inflight' = [inflight EXCEPT ![i].pc = "settled",
                          ![i].resolved = Response(<<"downstream", i>>, 200, [page |-> "html"])]
       \/ \E f \in ConcurrentFailures :
            inflight' = [inflight EXCEPT ![i].pc = "settled", ![i].resolved = Threw(f)]
    /\ UNCHANGED <<pc, event, locals, logs, idCount, resolved, handled, payload, rt, rows,
                   autoInc, lib, logger, database>>

\* handle of request i resumes after its await and runs to its end
ConcurrentExit(i) ==
    /\ inflight[i].pc = "settled"
    /\ LET q == inflight[i]
       IN  IF ~shouldLogRequest(q.event.path)
           THEN /\ inflight' = [inflight EXCEPT ![i].pc = "done", ![i].handled = q.resolved]
                /\ logs' = logs
           ELSE \E now1 \in Tick, now2 \in Tick, ok1 \in BOOLEAN, ok2 \in BOOLEAN, ok3 \in BOOLEAN :
                  LET r == HandleClose(q.event, q.locals.requestId, q.locals.startTime,
                                       q.resolved, now1, ok1, now2, ok2, ok3)
                  IN  /\ inflight' = [inflight EXCEPT ![i].pc = "done",
                                                      ![i].handled = OutcomeOf(r)]
                      /\ logs' = logs \o r.recs
    /\ UNCHANGED <<pc, event, locals, idCount, resolved, handled, payload, rt, rows, autoInc,
                   lib, logger, database>>

NextConcurrent ==
    \/ \E i \in Requests : ConcurrentEnter(i)
    \/ \E i \in Requests : ConcurrentResolve(i)
    \/ \E i \in Requests : ConcurrentExit(i)

SpecConcurrent == InitConcurrent /\ [][NextConcurrent]_vars

----------------------------------------------------------------------------
(* middleware.ts: shouldLogRequest applied to a pathname *)

MaxPieces == 4

\* the pieces pathnames are made of; no piece is the start of another
PathPieces == {"/", "favicon.ico", "robots.txt", "_app", "health", "Health", "ping", "api", "z"}

RECURSIVE PathsOfLen(_)
PathsOfLen(n) ==
    IF n = 0 THEN {<<>>}
    ELSE {Append(p, c) : p \in PathsOfLen(n - 1), c \in PathPieces}

\* the pathnames of URLs: they start with '/'
PathInputs ==
    Paths \cup {p \in UNION {PathsOfLen(n) : n \in 1..MaxPieces} : p[1] = "/"}

InitFilter ==
    /\ pc = "filter"
    /\ \E p \in PathInputs : event = [NoEvent EXCEPT !.path = p]
    /\ locals = UnsetLocals
    /\ logs = <<>>
    /\ idCount = 0
    /\ resolved = Pending
    /\ handled = Pending
    /\ payload = Pending
    /\ rt = NoRt
    /\ rows = EmptyTable /\ autoInc = 1
    /\ lib = NoCall
    /\ logger = NoLogger
    /\ database = NoDatabase
    /\ inflight = <<>>

\* shouldLogRequest(url.pathname)
ShouldLogRequestCall ==
    /\ pc = "filter"
    /\ lib' = [NoCall EXCEPT !.fn = "shouldLogRequest",
                             !.outcome = Returned(shouldLogRequest(event.path))]
    /\ pc' = "filter.done"
    /\ UNCHANGED <<event, locals, logs, idCount, resolved, handled, payload, rt, rows, autoInc,
                   logger, inflight, database>>

NextFilter == ShouldLogRequestCall

SpecFilter == InitFilter /\ [][NextFilter]_vars

----------------------------------------------------------------------------
(* Update and delete requests for the same row, served concurrently: every  *)
(* await of a persistence call is a point where another handler may run.    *)
(* The logger calls succeed here; their failures are explored in Spec.      *)

MaxClients == 2

Clients == 1..MaxClients

\* the id the requests are about
SharedId == 1

IdleClient == [pc |-> "idle", event |-> NoEvent, rt |-> NoRt, resolved |-> Pending,
               matched |-> -1]

\* PUT and DELETE requests for the row SharedId with all required fields
SharedRequests ==
    {[NoEvent EXCEPT !.path = ItemsPath, !.method = m, !.body = b] :
        m \in {"PUT", "DELETE"}, b \in Bodies(ItemsPath, "PUT") \cup Bodies(ItemsPath, "DELETE")}

SharedEvents ==
    {ev \in SharedRequests :
        /\ ev.body \in Bodies(ItemsPath, ev.method)
        /\ ev.body.valid /\ ev.body.id = SharedId
        /\ ev.method = "PUT" => (ev.body.name # "" /\ ev.body.category # ""
                                    /\ ev.body.price # NoPrice)}

\* the handler of a client after a piece r of it has run
Advance(c, r) ==
    [c EXCEPT !.resolved = IF r.threw THEN Threw(r.failure)
                           ELSE IF r.value.kind = "response" THEN r.value ELSE @,
              !.pc = IF r.threw \/ r.value.kind = "response" THEN "settled"
                     ELSE r.value.next]

InitShared ==
    /\ pc = "shared"
    /\ event = NoEvent
    /\ locals = UnsetLocals
    /\ logs = <<>>
    /\ idCount = 0
    /\ resolved = Pending
    /\ handled = Pending
    /\ payload = Pending
    /\ rt = NoRt
    /\ rows = [EmptyTable EXCEPT ![SharedId] = FirstRow] /\ autoInc = SharedId + 1
    /\ lib = NoCall
    /\ logger = NoLogger
    /\ database = NoDatabase
    /\ inflight = [i \in Clients |-> IdleClient]

\* the handler of client i from its first line to its first persistence call
SharedEnter(i) ==
    /\ inflight[i].pc = "idle"
    /\ \E ev \in SharedEvents, now \in Tick :
         LET requestId == generateRequestId(idCount + 1)
             r == Then(ItemsOpen(ev, requestId, TRUE),
                       ItemsTry(ItemsParse(ev, requestId, now, now, TRUE, TRUE),
                                ev, requestId, now, now, TRUE, TRUE))
         IN  /\ idCount' = idCount + 1
             /\ logs' = logs \o r.recs
             /\ inflight' = [inflight EXCEPT ![i] =
                    Advance([@ EXCEPT !.event = ev,
                                      !.rt = [NoRt EXCEPT !.requestId = requestId,
                                                          !.startTime = now]], r)]
    /\ UNCHANGED <<pc, event, locals, resolved, handled, payload, rt, rows, autoInc, lib, logger, database>>

\* PUT of client i: await db.update(items).set(updateData).where(eq(items.id, id))
SharedPutUpdate(i) ==
    /\ inflight[i].pc = "items.put.update"
    /\ \E fail \in {<<>>, <<"m1">>}, now \in Tick :
         LET c == inflight[i]
             id == c.event.body.id
             t == IF fail # <<>> THEN Thr(<<>>, DbFailure(fail))
                  ELSE Ret(<<>>, Await("items.put.select"))
             r == ItemsTry(t, c.event, c.rt.requestId, c.rt.startTime, now, TRUE, TRUE)
         IN  /\ logs' = logs \o r.recs
             /\ rows' = IF fail = <<>> THEN UpdateRow(rows, id, ItemData(c.event.body)) ELSE rows
             /\ inflight' = [inflight EXCEPT ![i] =
                    Advance([@ EXCEPT !.matched = IF fail # <<>> THEN -1
                                                  ELSE Len(SelectById(rows, id))], r)]
    /\ UNCHANGED <<pc, event, locals, idCount, resolved, handled, payload, rt, autoInc, lib, logger, database>>

\* PUT of client i: await db.select() of the row and the rest of the handler
SharedPutSelect(i) ==
    /\ inflight[i].pc = "items.put.select"
    /\ \E fail \in {<<>>, <<"m1">>}, now \in Tick :
         LET c == inflight[i]
             id == c.event.body.id
             updatedItem == SelectById(rows, id)
             t == IF fail # <<>> THEN Thr(<<>>, DbFailure(fail))
                  ELSE IF Len(updatedItem) = 0
                  THEN ItemsNotFound(c.event, c.rt.requestId, c.rt.startTime,
                                     "Item not found for update", id, now, TRUE, TRUE)
                  ELSE ItemsDone(c.event, c.rt.requestId, c.rt.startTime, "update",
                                 "Item updated successfully", "Successfully updated item",
                                 200, id, updatedItem[1], now, TRUE, TRUE)
             r == ItemsTry(t, c.event, c.rt.requestId, c.rt.startTime, now, TRUE, TRUE)
         IN  /\ logs' = logs \o r.recs
             /\ inflight' = [inflight EXCEPT ![i] = Advance(@, r)]
    /\ UNCHANGED <<pc, event, locals, idCount, resolved, handled, payload, rt, rows, autoInc,
                   lib, logger, database>>

\* DELETE of client i: await db.select() of the row to delete
SharedDeleteSelect(i) ==
    /\ inflight[i].pc = "items.delete.select"
    /\ \E fail \in {<<>>, <<"m1">>}, now \in Tick :
         LET c == inflight[i]
             id == c.event.body.id
             itemToDelete == SelectById(rows, id)
             t == IF fail # <<>> THEN Thr(<<>>, DbFailure(fail))
                  ELSE IF Len(itemToDelete) = 0
                  THEN ItemsNotFound(c.event, c.rt.requestId, c.rt.startTime,
                                     "Item not found for deletion", id, now, TRUE, TRUE)
                  ELSE Ret(<<>>, Await("items.delete.delete"))
             r == ItemsTry(t, c.event, c.rt.requestId, c.rt.startTime, now, TRUE, TRUE)
         IN  /\ logs' = logs \o r.recs
             /\ inflight' = [inflight EXCEPT ![i] =
                    Advance([@ EXCEPT !.rt.item = IF fail = <<>> /\ Len(itemToDelete) > 0
                                                  THEN itemToDelete[1] ELSE @], r)]
    /\ UNCHANGED <<pc, event, locals, idCount, resolved, handled, payload, rt, rows, autoInc,
                   lib, logger, database>>

\* DELETE of client i: await db.delete(items).where(eq(items.id, id)) and the
\* rest of the handler
SharedDeleteDelete(i) ==
    /\ inflight[i].pc = "items.delete.delete"
    /\ \E fail \in {<<>>, <<"m1">>}, now \in Tick :
         LET c == inflight[i]
             id == c.event.body.id
             t == IF fail # <<>> THEN Thr(<<>>, DbFailure(fail))
                  ELSE ItemsDone(c.event, c.rt.requestId, c.rt.startTime, "delete",
                                 "Item deleted successfully", "Successfully deleted item",
                                 200, id, c.rt.item, now, TRUE, TRUE)
             r == ItemsTry(t, c.event, c.rt.requestId, c.rt.startTime, now, TRUE, TRUE)
         IN  /\ logs' = logs \o r.recs
             /\ rows' = IF fail = <<>> THEN DeleteRow(rows, id) ELSE rows
             /\ inflight' = [inflight EXCEPT ![i] = Advance(@, r)]
    /\ UNCHANGED <<pc, event, locals, idCount, resolved, handled, payload, rt, autoInc, lib, logger, database>>

NextShared ==
    \E i \in Clients :
        \/ SharedEnter(i)
        \/ SharedPutUpdate(i)
        \/ SharedPutSelect(i)
        \/ SharedDeleteSelect(i)
        \/ SharedDeleteDelete(i)

SpecShared == InitShared /\ [][NextShared]_vars

----------------------------------------------------------------------------
(* db/index.ts: the lazily created database instance behind the db proxy.   *)
(* building and env.DATABASE_URL are fixed when the process starts; _db is  *)
(* 0 for null and otherwise the number of the pool the instance wraps.      *)
(* mysql.createPool only builds the pool object: it opens no connection.    *)

MaxAccesses == 4

DatabaseUrls == {"", "mysql://a", "mysql://b"}

Props == {"select", "insert", "update", "delete"}

\* createDatabase() creating a pool on every call
createDatabase_NoCache(d, ok) ==
    IF d.url = ""
    THEN Thr(<<>>, NewError(<<"db", "url">>, <<"DATABASE_URL is not set">>)) @@ [state |-> d]
    ELSE LET connection == d.pools + 1
             pooled == [d EXCEPT !.pools = connection]
             c == logConnection("connect", [database |-> d.url, driver |-> "mysql2"], ok)
         IN  IF c.threw THEN c @@ [state |-> [pooled EXCEPT !.failed = @ + 1]]
             ELSE Ret(c.recs, connection) @@ [state |-> [pooled EXCEPT !.db = connection]]

\* createDatabase(), lines 10-24; state is the module after the call
createDatabase(d, ok) ==
    IF d.db # 0 THEN Ret(<<>>, d.db) @@ [state |-> d]
    ELSE IF d.url = ""
    THEN Thr(<<>>, NewError(<<"db", "url">>, <<"DATABASE_URL is not set">>)) @@ [state |-> d]
    ELSE LET connection == d.pools + 1
             pooled == [d EXCEPT !.pools = connection]
             c == logConnection("connect", [database |-> d.url, driver |-> "mysql2"], ok)
         IN  IF c.threw THEN c @@ [state |-> [pooled EXCEPT !.failed = @ + 1]]
             ELSE Ret(c.recs, connection) @@ [state |-> [pooled EXCEPT !.db = connection]]

\* the get trap of the db proxy, lines 27-35: db[prop]
dbGet(d, prop, ok) ==
    IF d.building
    THEN Thr(<<>>, NewError(<<"db", "building">>,
                            <<"Database access during build is not allowed">>)) @@ [state |-> d]
    ELSE LET c == createDatabase(d, ok)
         IN  IF c.threw THEN c
             ELSE Ret(c.recs, [instance |-> c.value, prop |-> prop]) @@ [state |-> c.state]

InitDb ==
    /\ pc = "db"
    /\ event = NoEvent
    /\ locals = UnsetLocals
    /\ logs = <<>>
    /\ idCount = 0
    /\ resolved = Pending
    /\ handled = Pending
    /\ payload = Pending
    /\ rt = NoRt
    /\ rows = EmptyTable /\ autoInc = 1
    /\ lib = NoCall
    /\ logger = NoLogger
    /\ inflight = <<>>
    /\ \E b \in BOOLEAN, u \in DatabaseUrls :
          database = [NoDatabase EXCEPT !.building = b, !.url = u]

\* some code reads a property of db
DbAccess ==
    /\ pc = "db"
    /\ database.accesses < MaxAccesses
    /\ \E prop \in Props, ok \in BOOLEAN :
         LET r == dbGet(database, prop, ok)
         IN  /\ logs' = logs \o r.recs
             /\ database' = [r.state EXCEPT !.accesses = @ + 1,
                                            !.last = IF r.threw THEN Threw(r.failure)
                                                     ELSE Returned(r.value)]
    /\ UNCHANGED <<pc, event, locals, idCount, resolved, handled, payload, rt, rows, autoInc,
                   lib, logger, inflight>>

NextDb == DbAccess

SpecDb == InitDb /\ [][NextDb]_vars

----------------------------------------------------------------------------
(* Observations on the log of the request being served *)

IsType(rec, t) == Has(rec.ctx, "type") /\ rec.ctx.type = t

HasId(rec, requestId) == Has(rec.ctx, "requestId") /\ rec.ctx.requestId = requestId

\* positions of the records of a type in the log
OfType(t) == {i \in DOMAIN logs : IsType(logs[i], t)}

\* positions of the records of a type that carry a request id
OfTypeWithId(t, requestId) == {i \in OfType(t) : HasId(logs[i], requestId)}

\* positions of the error reports that carry a request id
ReportsWithId(requestId) ==
    {i \in DOMAIN logs : logs[i].level = "error" /\ HasId(logs[i], requestId)}

Logged == shouldLogRequest(event.path)

\* handle has returned or thrown
HandleOver == handled.kind # "pending"

\* the arrival log of the interceptor has been written
ArrivalLogged == Logged /\ OfTypeWithId("request", locals.requestId) # {}

\* handle ran its catch block to the end and re-raised what resolve threw
ReRaised ==
    /\ Logged /\ resolved.kind = "throw"
    /\ handled.kind = "throw" /\ handled.failure = resolved.failure

----------------------------------------------------------------------------
(* Claims *)

C2_OneRequestOneResponse ==
    (Logged /\ handled.kind = "response")
        => /\ Cardinality(OfType("request")) = 1
           /\ Cardinality(OfType("response")) = 1
           /\ \A i \in OfType("request"), j \in OfType("response") :
                 logs[i].ctx.requestId = logs[j].ctx.requestId

\* C3: when the downstream handler throws, what handle throws to its caller
\* is the very object the handler threw, on every path through the catch
\* block, also when writing the completion log or the error report fails.
C3_ReRaisesOriginal ==
    (HandleOver /\ resolved.kind = "throw")
        => (handled.kind = "throw" /\ handled.failure = resolved.failure)

\* C4: when the downstream handler throws a failure that is not an AppError,
\* every completion record of handle has status 500 and every error report of
\* handle has errorType internal, statusCode 500 and the failure's message (or
\* string form) in originalError; there is never more than one report, and
\* when handle re-raises the failure there is exactly one completion record
\* and exactly one report.
C4_PlainFailureReport ==
    (pc = "handleError" /\ Logged /\ resolved.kind = "throw" /\ ~IsAppError(resolved.failure))
        => LET responses == OfTypeWithId("response", locals.requestId)
               reports == ReportsWithId(locals.requestId)
           IN  /\ \A i \in responses : logs[i].ctx.status = 500
               /\ \A i \in reports :
                     /\ logs[i].ctx.errorType = ErrorType.INTERNAL
                     /\ logs[i].ctx.statusCode = 500
                     /\ logs[i].ctx.originalError = StringOf(resolved.failure)
               /\ Cardinality(reports) <= 1
               /\ ReRaised => (Cardinality(responses) = 1 /\ Cardinality(reports) = 1)

C4_Witness ==
    /\ pc = "handleError" /\ ReRaised
    /\ resolved.failure.cls = "Value"
    /\ \E i \in ReportsWithId(locals.requestId) : logs[i].ctx.originalError = <<"m1">>

\* C5: when the downstream handler throws an AppError of type T and
\* statusCode S, the report written by handle, and the report written by
\* handleError, carry errorType T and statusCode S; the request fields merged
\* into the report (requestId, method, url) are those of the request.
C5_ClassifiedReportKeepsType ==
    /\ (pc = "handleError" /\ Logged /\ resolved.kind = "throw" /\ IsAppError(resolved.failure))
          => /\ \A i \in ReportsWithId(locals.requestId) :
                   /\ logs[i].ctx.errorType = resolved.failure.type
                   /\ logs[i].ctx.statusCode = resolved.failure.statusCode
                   /\ logs[i].ctx.method = event.method
                   /\ logs[i].ctx.url = event.path
             /\ ReRaised => Cardinality(ReportsWithId(locals.requestId)) = 1
    /\ (pc = "done" /\ payload.kind = "returned" /\ IsAppError(handled.failure))
          => /\ logs # <<>>
             /\ logs[Len(logs)].level = "error"
             /\ logs[Len(logs)].ctx.errorType = handled.failure.type
             /\ logs[Len(logs)].ctx.statusCode = handled.failure.statusCode
             /\ logs[Len(logs)].ctx.method = event.method
             /\ logs[Len(logs)].ctx.url = event.path

C5_Witness ==
    /\ pc = "done" /\ payload.kind = "returned" /\ ReRaised
    /\ IsAppError(handled.failure) /\ handled.failure.type = ErrorType.VALIDATION
    /\ Cardinality(ReportsWithId(locals.requestId)) = 2
    /\ logs[Len(logs)].ctx.statusCode = 400

\* C6: no component re-wraps a classified error: when a wrapper catches an
\* AppError and throws an AppError, the one it throws is the one it caught.
C6_NeverReWrapped ==
    (lib.outcome.kind = "throw" /\ IsAppError(lib.caught) /\ IsAppError(lib.outcome.failure))
        => lib.outcome.failure = lib.caught

\* C7: the duration of every completion record written by logResponse is
\* non-negative.
C7_DurationNonNegative ==
    \A i \in OfTypeWithId("response", locals.requestId) : logs[i].ctx.duration >= 0

\* C8: logRequest never throws: when handle has taken the logging path it
\* goes on to invoke the downstream handler, so handle is never over with
\* resolve(event) not called.
C8_LogRequestNeverAborts ==
    ~(HandleOver /\ resolved.kind = "pending")

\* C9: a response that a route handler builds for an unexpected failure
\* (status 500) has a body made of fixed strings: its error field is the
\* handler's fixed failure text, never the message of the failure.
C9_NoMessageInBody ==
    (resolved.kind = "response" /\ resolved.status = 500 /\ event.path \in {ItemsPath, TestPath})
        => resolved.body.error \in {<<ItemsFailText[m]>> : m \in DOMAIN ItemsFailText}
                                     \cup {<<TestFailText[m]>> : m \in DOMAIN TestFailText}

\* C10: whenever handleError returns, it returns the payload
\* {message: 'Internal server error', code: 'INTERNAL_ERROR'}, whatever the
\* error and the event.
C10_GenericPayload ==
    payload.kind = "returned"
        => payload.value = [message |-> "Internal server error", code |-> "INTERNAL_ERROR"]

C10_Witness ==
    /\ payload.kind = "returned"
    /\ IsAppError(handled.failure) /\ handled.failure.statusCode = 404
    /\ handled.failure.message = <<"m2">>

\* positions of the reports an items handler filed, in its catch block, for a
\* rejected persistence call
PersistenceReports ==
    {i \in DOMAIN logs :
        /\ logs[i].level = "error"
        /\ HasId(logs[i], rt.requestId)
        /\ Has(logs[i].ctx, "operation") /\ Has(logs[i].ctx, "error")
        /\ logs[i].ctx.error.name = "Error"
        /\ logs[i].ctx.error.message \in Messages}

\* C11: a persistence failure in an items handler is not caught by the
\* handler: once the handler has settled after such a failure it has thrown to
\* handle and has not turned the failure into a response.
C11_PersistenceFailureSurfaces ==
    (event.path = ItemsPath /\ resolved.kind # "pending" /\ PersistenceReports # {})
        => resolved.kind = "throw"

\* the logger has a remote transport writing to this dataset
HasRemote(dataset) ==
    \E i \in DOMAIN logger.transports :
        logger.transports[i].kind = "axiom" /\ logger.transports[i].dataset = dataset

\* C12: once the logger is built, it has the remote destination whenever the
\* token is set, writing to the default dataset when no dataset name is set,
\* and has no remote destination only when the token is absent.
C12_RemoteWheneverToken ==
    pc = "logger.ready"
        => IF logger.env.AXIOM_TOKEN # ""
           THEN HasRemote(IF logger.env.AXIOM_DATASET = "" THEN "default"
                          ELSE logger.env.AXIOM_DATASET)
           ELSE Accepting(logger.transports, "error") = {"console"}

\* C13: when a facade call emits a record and one destination fails, the call
\* returns to its caller and every other destination that takes the record's
\* level has received the record.
C13_DestinationFailureContained ==
    (logger.last.kind # "pending" /\ Cardinality(logger.last.fails) = 1)
        => /\ logger.last.kind = "returned"
           /\ logger.last.to = Accepting(logger.transports, logger.last.rec.level) \ logger.last.fails

\* C14: whatever the interleaving of the requests being served, every
\* completion (response) record in the log comes after an arrival (request)
\* record carrying the same requestId.
C14_ArrivalBeforeCompletion ==
    \A j \in OfType("response") :
        \E i \in OfType("request") :
            i < j /\ logs[i].ctx.requestId = logs[j].ctx.requestId

\* two requests are in flight together and the one that arrived last is
\* completed first
C14_Witness ==
    /\ Len(logs) >= 4
    /\ IsType(logs[1], "request") /\ IsType(logs[2], "request")
    /\ IsType(logs[3], "response") /\ logs[3].ctx.requestId = logs[2].ctx.requestId
    /\ IsType(logs[4], "response") /\ logs[4].ctx.requestId = logs[1].ctx.requestId

\* C15: a failure thrown by the downstream handler is reported once over the
\* whole request: after handle has logged and re-raised it and handleError has
\* run for it, the log holds exactly one error report for the request.
C15_ReportedOnce ==
    (pc = "done" /\ ReRaised /\ payload.kind = "returned")
        => Cardinality(ReportsWithId(locals.requestId)) = 1

\* a failure thrown by a logger call
SinkFailure(f) == f.oid[1] = "sink"

\* a logger call of the route handler threw: the handler let the failure out,
\* or caught and reported it
RouteLoggerFailed ==
    \/ resolved.kind = "throw" /\ SinkFailure(resolved.failure)
    \/ \E i \in ReportsWithId(rt.requestId) :
          Has(logs[i].ctx, "error") /\ logs[i].ctx.error.message = <<"transport failed">>

OnSkipList(p) ==
    /\ Len(p) >= 2 /\ p[1] = "/"
    /\ \/ p[2] \in {"favicon.ico", "robots.txt", "health", "ping"}
       \/ p[2] = "_app" /\ Len(p) >= 3 /\ p[3] = "/"

\* C17: shouldLogRequest(path) is false exactly when the path starts with one
\* of the five fixed prefixes and true for every other path; '/health' gives
\* false and '/api/items' gives true.
C17_SkipListExact ==
    pc = "filter.done"
        => /\ lib.outcome.value = ~OnSkipList(event.path)
           /\ event.path = <<"/", "health">> => lib.outcome.value = FALSE
           /\ event.path = ItemsPath => lib.outcome.value = TRUE

C17_Witness ==
    /\ pc = "filter.done"
    /\ event.path = <<"/", "health", "z">>
    /\ lib.outcome.value = FALSE

\* C18: for a request whose path is on the skip list handle is a pass-through:
\* it writes no arrival record, no completion record and no error report,
\* leaves locals.requestId and locals.startTime unset, and returns or throws
\* exactly what the downstream handler returned or threw.
C18_SkippedPassThrough ==
    OnSkipList(event.path)
        => /\ locals = UnsetLocals
           /\ OfType("request") = {} /\ OfType("response") = {}
           /\ payload.kind = "pending" => logs = <<>>
           /\ HandleOver => handled = resolved

C18_Witness ==
    /\ OnSkipList(event.path)
    /\ pc = "handleError"
    /\ handled.kind = "throw" /\ handled = resolved /\ logs = <<>>

\* the request is a create request whose body lacks name, category or price
CreateLacksField ==
    /\ event.path = ItemsPath /\ event.method = "POST" /\ event.body.valid
    /\ (event.body.name = "" \/ event.body.category = "" \/ event.body.price = NoPrice)

UpdateOfMissingRow ==
    /\ event.path = ItemsPath /\ event.method = "PUT" /\ event.body.valid
    /\ event.body.id # 0 /\ event.body.name # "" /\ event.body.category # ""
    /\ event.body.price # NoPrice
    /\ SelectById(rows, event.body.id) = <<>>

FactoryPreset ==
    [createValidationError |-> <<"validation", 400>>, createNotFoundError |-> <<"not_found", 404>>,
     createAuthError |-> <<"authentication", 401>>, createAuthzError |-> <<"authorization", 403>>,
     createDatabaseError |-> <<"database", 500>>]

\* C21: new AppError(message) defaults to type internal, statusCode 500, an
\* empty context and isOperational true, each default applying to the
\* arguments not given, and each factory function yields an operational
\* AppError of its fixed type and status.
C21_DefaultsAndPresets ==
    (pc = "lib.done" /\ lib.outcome.kind = "returned")
        => LET e == lib.outcome.value
               n == Len(lib.context)
           IN  /\ lib.fn = "AppError"
                     => /\ IsAppError(e)
                        /\ n < 1 => e.type = "internal"
                        /\ n < 2 => e.statusCode = 500
                        /\ n < 3 => e.context = [errorType |-> e.type, statusCode |-> e.statusCode]
                        /\ n < 4 => e.isOperational = TRUE
                        /\ e.context.errorType = e.type /\ e.context.statusCode = e.statusCode
               /\ lib.fn \in DOMAIN FactoryPreset
                     => /\ IsAppError(e)
                        /\ e.type = FactoryPreset[lib.fn][1]
                        /\ e.statusCode = FactoryPreset[lib.fn][2]
                        /\ e.isOperational = TRUE

C21_Witness ==
    /\ pc = "lib.done" /\ lib.fn = "createAuthzError"
    /\ lib.outcome.value.type = "authorization" /\ lib.outcome.value.statusCode = 403

\* the logger was built with the remote transport
RemoteConfigured == \E i \in DOMAIN logger.transports : logger.transports[i].kind = "axiom"

\* C22: a record of level debug is never delivered to the remote destination;
\* with no destination failing, a record of level info, warn or error is
\* delivered to the remote destination when it is configured, and a record of
\* any of the four levels is delivered to the console, configured or not.
C22_LevelsPerDestination ==
    /\ \A i \in DOMAIN logger.buffer : logger.buffer[i].level # "debug"
    /\ \A i \in DOMAIN logger.dataset : logger.dataset[i].level # "debug"
    /\ logger.last.kind # "pending"
          => /\ logger.last.rec.level = "debug" => "axiom" \notin logger.last.to
             /\ logger.last.fails = {}
                   => /\ "console" \in logger.last.to
                      /\ (RemoteConfigured /\ logger.last.rec.level \in {"info", "warn", "error"})
                            => "axiom" \in logger.last.to

\* with the remote destination configured, a debug record went to the console
\* alone after an earlier record had reached the remote buffer
C22_Witness ==
    /\ RemoteConfigured /\ logger.last.kind = "returned"
    /\ logger.last.rec.level = "debug" /\ logger.last.to = {"console"}
    /\ Len(logger.buffer) = 1 /\ logger.buffer[1].level = "warn"

\* positions of the records of logOperation whose message starts with a word
LibRecords(word) ==
    {i \in DOMAIN logs : Len(logs[i].message) >= 2 /\ logs[i].message[2] = word}

\* a logger call of the wrapper threw
LibLoggerFailed ==
    \/ lib.outcome.kind = "throw" /\ SinkFailure(lib.outcome.failure)
    \/ \E i \in DOMAIN logs :
          Has(logs[i].ctx, "error") /\ logs[i].ctx.error.message = <<"transport failed">>

C24_CompletionBeforeReport ==
    ReRaised
        => LET responses == OfTypeWithId("response", locals.requestId)
               reports == ReportsWithId(locals.requestId)
           IN  /\ reports # {}
               /\ \A j \in reports :
                     \E i \in responses : i < j /\ logs[i].ctx.status = 500

C24_Witness ==
    /\ ReRaised /\ IsAppError(resolved.failure)
    /\ \E i \in OfTypeWithId("response", locals.requestId),
          j \in ReportsWithId(locals.requestId) :
          i < j /\ logs[i].ctx.status = 500 /\ logs[j].ctx.errorType = resolved.failure.type

\* C25: the load function of the home page continues without items when the
\* database select fails: it writes the error record and a warning, does not
\* throw, and returns its normal result (envVars, serverInfo) with items
\* equal to the empty list.
C25_LoadContinuesWithoutItems ==
    (pc = "lib.done" /\ lib.fn = "load" /\ lib.settled.kind = "throw"
        /\ Len(logs) >= 1 /\ ~LibLoggerFailed)
        => /\ lib.outcome.kind = "returned"
           /\ lib.outcome.value.items = <<>>
           /\ \E i \in DOMAIN logs : logs[i].level = "error"
           /\ \E i \in DOMAIN logs : logs[i].level = "warn"

Answered(method, status) ==
    {i \in DOMAIN inflight :
        /\ inflight[i].event.method = method
        /\ inflight[i].resolved.kind = "response"
        /\ inflight[i].resolved.status = status}

\* C27: under any interleaving of concurrent DELETE requests for the same
\* existing id, at most one of them returns status 200 with the deleted item.
C27_OneDeleteSucceeds ==
    Cardinality(Answered("DELETE", 200)) <= 1

\* the record a PUT of a client returned holds the values the client sent
ReturnsOwnValues(c) ==
    /\ c.resolved.body.name = c.event.body.name
    /\ c.resolved.body.category = c.event.body.category
    /\ c.resolved.body.price = ToCents(c.event.body.price)

\* C28: under any interleaving of concurrent requests on the same id, a PUT
\* that returns status 200 returns a record whose name, category and price in
\* cents are the values this PUT itself wrote, and a PUT returns 404 only if
\* its update modified no row.
C28_PutReturnsOwnWrite ==
    /\ \A i \in Answered("PUT", 200) : ReturnsOwnValues(inflight[i])
    /\ \A i \in Answered("PUT", 404) : inflight[i].matched = 0

\* positions of the records of the 'connect' event
ConnectRecords ==
    {i \in DOMAIN logs : Has(logs[i].ctx, "event") /\ logs[i].ctx.event = "connection"}

\* the last access of db threw an Error with this message
LastThrew(message) ==
    /\ database.last.kind = "throw"
    /\ database.last.failure.message = message

\* what holds after every access of db
AfterAccess ==
    (pc = "db" /\ database.accesses > 0)
        => /\ Cardinality(ConnectRecords) = (IF database.db # 0 THEN 1 ELSE 0)
           /\ database.pools = database.failed + (IF database.db # 0 THEN 1 ELSE 0)
           /\ database.building
                 => /\ database.pools = 0 /\ database.db = 0
                    /\ LastThrew(<<"Database access during build is not allowed">>)
           /\ (~database.building /\ database.url = "")
                 => /\ database.pools = 0 /\ database.db = 0
                    /\ LastThrew(<<"DATABASE_URL is not set">>)
           /\ (~database.building /\ database.url # "")
                 => IF database.last.kind = "returned"
                    THEN /\ database.db # 0
                         /\ database.last.value.instance = database.db
                         /\ database.failed = 0 => database.db = 1
                    ELSE /\ SinkFailure(database.last.failure)
                         /\ database.db = 0
                         /\ database.failed = database.accesses

\* an access made when the instance exists creates no pool and keeps it
InstanceKept ==
    database.db # 0 => (database'.db = database.db /\ database'.pools = database.pools)

C30_WrapperKeepsOrder ==
    (pc = "lib.done" /\ lib.fn = "withLogging" /\ ~LibLoggerFailed)
        => LET requestId == generateRequestId(idCount)
               arrivals == OfTypeWithId("request", requestId)
               completions == OfTypeWithId("response", requestId)
           IN  /\ lib.outcome = lib.settled
               /\ Cardinality(arrivals) <= 1 /\ arrivals = OfType("request")
               /\ Cardinality(completions) <= 1 /\ completions = OfType("response")
               /\ \A j \in completions :
                     logs[j].ctx.status = (IF lib.settled.kind = "throw" THEN 500
                                           ELSE IF Has(lib.settled, "status")
                                           THEN lib.settled.status ELSE 200)
               /\ \A j \in completions : \E i \in arrivals : i < j

====
